---- MODULE Spec2Model ----
(***************************************************************************)
(* A model of the SQLite on-disk format decoder of sqlite-repr (parser     *)
(* crate): varint decoding, the reader / page store, the cell decoder with *)
(* its overflow-spill arithmetic, the overflow-page decoder, payload       *)
(* stitching and the b-tree materializer.                                  *)
(*                                                                         *)
(* TLC integers are 32 bits wide, so the i64 accumulator of Varint::new is *)
(* kept as four 16-bit limbs, most significant first.                      *)
(***************************************************************************)
EXTENDS Integers, Sequences, FiniteSets, TLC

VARIABLES
    mode,       \* which part of the decoder this behaviour exercises
    buf,        \* the byte slice handed to Varint::new
    varint,     \* the Varint it returned: [value, bytes], or NoResult before the call
    reader,     \* the Reader: [bytes, db_header], or NoResult when none is built
    call,       \* the last Reader method called and its argument: [op, page_num]
    ret,        \* what that call returned
    written,    \* what the database writer stored: the row and its layout
    cell_buf,   \* the page bytes from a cell pointer on, handed to Cell::new
    cell,       \* the Result of Cell::new, or NoResult before the call
    walk,       \* what BTreeNode::follow_overflow returned for the cell's chain
    stitched,   \* the payload BTree::new got from BTree::follow_overflow
    tree,       \* the Result of BTree::new for the cell
    node,       \* the Result of BTreeNode::new for a page
    forest,     \* the Result of Reader::get_btrees
    current_db,     \* AppState: the name of the database on display
    viewer,         \* the Result of Viewer::new_from_included
    selected_page,  \* AppState: the page view on display
    selected_part,  \* AppState: Some(part) or None
    selected_field, \* AppState: Some(field) or None
    locked_field,   \* AppState: Some(<<np, nf>>), 0-based, or None
    handler         \* the last event handler of the page and how it ended

varintVars == <<buf, varint>>
readerVars == <<reader, call, ret>>
cellVars == <<written, cell_buf, cell>>
treeVars == <<walk, stitched, tree, node, forest>>
viewerVars ==
    <<current_db, viewer, selected_page, selected_part, selected_field, locked_field,
      handler>>
vars ==
    <<mode, buf, varint, reader, call, ret, written, cell_buf, cell,
      walk, stitched, tree, node, forest, viewerVars>>

IdleVarint == buf = <<>> /\ varint = [none |-> TRUE]
IdleReader == reader = [none |-> TRUE] /\ call = [none |-> TRUE] /\ ret = [none |-> TRUE]
IdleCell == written = [none |-> TRUE] /\ cell_buf = <<>> /\ cell = [none |-> TRUE]
IdleTree ==
    /\ walk = [none |-> TRUE]
    /\ stitched = [none |-> TRUE]
    /\ tree = [none |-> TRUE]
    /\ node = [none |-> TRUE]
    /\ forest = [none |-> TRUE]

IdleViewer ==
    /\ current_db = [none |-> TRUE]
    /\ viewer = [none |-> TRUE]
    /\ selected_page = [none |-> TRUE]
    /\ selected_part = [none |-> TRUE]
    /\ selected_field = [none |-> TRUE]
    /\ locked_field = [none |-> TRUE]
    /\ handler = [none |-> TRUE]

NoResult == [none |-> TRUE]

(***************************************************************************)
(* Bounds of the model.                                                    *)
(***************************************************************************)
\* Longest byte slice handed to Varint::new (a varint takes at most nine).
MaxBufLen == 10

\* The byte values the slices are drawn from: high bit clear (0x04, 0x43)
\* and high bit set (0x88).
VarintBytes == {4, 67, 136}

\* Slices with bytes that carry no payload (0x80, 0x00) next to bytes that
\* do (0x81, 0x7f), and the longest of them.
PaddedBytes == {0, 127, 128, 129}
MaxPaddedLen == 4

\* Nine-byte runs by their first two bytes: the top eight bits of the value
\* are the seven payload bits of the first byte and bit 6 of the second.
NineByteRuns ==
    {<<b1, b2>> \o [i \in 1..7 |-> 129] : b1 \in {128, 129}, b2 \in {128, 192}}

(***************************************************************************)
(* Bit helpers on naturals.                                                *)
(***************************************************************************)
RECURSIVE BitAnd(_, _)
BitAnd(a, b) ==
    IF a = 0 \/ b = 0 THEN 0
    ELSE 2 * BitAnd(a \div 2, b \div 2) + (IF a % 2 = 1 /\ b % 2 = 1 THEN 1 ELSE 0)

RECURSIVE BitOr(_, _)
BitOr(a, b) ==
    IF a = 0 THEN b
    ELSE IF b = 0 THEN a
    ELSE 2 * BitOr(a \div 2, b \div 2) + (IF a % 2 = 1 \/ b % 2 = 1 THEN 1 ELSE 0)

(***************************************************************************)
(* i64 as four 16-bit limbs <<l3, l2, l1, l0>>, value = sum l_i * 2^(16i)  *)
(* taken as a twos-complement bit pattern.                                 *)
(***************************************************************************)
Limb == 65536

I64Zero == <<0, 0, 0, 0>>

\* value << k for 0 < k < 16: the bits shifted out of the top limb are lost.
I64Shl(v, k) ==
    LET up == 2 ^ k
        down == 2 ^ (16 - k)
    IN  [i \in 1..4 |->
            ((v[i] * up) % Limb) + (IF i < 4 THEN v[i + 1] \div down ELSE 0)]

\* value | b for a byte b (b as i64 is non-negative: only the low limb changes).
I64OrByte(v, b) == [v EXCEPT ![4] = BitOr(v[4], b)]

(***************************************************************************)
(* varint.rs: Varint::new                                                  *)
(***************************************************************************)
varint_mask == 128
drop_msb_mask == 127

\* A decoder that ors the whole byte into the value, high bit included: the
\* slip `byte & drop_msb_mask` guards against.
RECURSIVE VarintLoopKeepMsb(_, _, _)
VarintLoopKeepMsb(b, n, acc) ==
    IF n >= Len(b) THEN acc
    ELSE
        LET byte == b[n + 1]
            bytes == Append(acc.bytes, byte)
        IN  IF n = 8
            THEN [value |-> I64OrByte(I64Shl(acc.value, 8), byte), bytes |-> bytes]
            ELSE
                LET value == I64OrByte(I64Shl(acc.value, 7), byte)
                IN  IF BitAnd(byte, varint_mask) = 0
                    THEN [value |-> value, bytes |-> bytes]
                    ELSE VarintLoopKeepMsb(b, n + 1, [value |-> value, bytes |-> bytes])

\* One pass of the `for (n, &byte) in buf.iter().enumerate()` loop, n 0-based;
\* acc is [value, bytes]. Returns the Varint.
RECURSIVE VarintLoop(_, _, _)
VarintLoop(b, n, acc) ==
    IF n >= Len(b) THEN acc
    ELSE
        LET byte == b[n + 1]
            bytes == Append(acc.bytes, byte)
        IN  IF n = 8
            THEN [value |-> I64OrByte(I64Shl(acc.value, 8), byte), bytes |-> bytes]
            ELSE
                LET value == I64OrByte(I64Shl(acc.value, 7), BitAnd(byte, drop_msb_mask))
                IN  IF BitAnd(byte, varint_mask) = 0
                    THEN [value |-> value, bytes |-> bytes]
                    ELSE VarintLoop(b, n + 1, [value |-> value, bytes |-> bytes])

\* A decoder that folds the ninth byte like the first eight (7 bits, stop on a
\* clear high bit): the slip Varint::new's `n == 8` branch guards against.
RECURSIVE VarintLoopNoNinth(_, _, _)
VarintLoopNoNinth(b, n, acc) ==
    IF n >= Len(b) \/ n > 8 THEN acc
    ELSE
        LET byte == b[n + 1]
            bytes == Append(acc.bytes, byte)
            value == I64OrByte(I64Shl(acc.value, 7), BitAnd(byte, drop_msb_mask))
        IN  IF BitAnd(byte, varint_mask) = 0
            THEN [value |-> value, bytes |-> bytes]
            ELSE VarintLoopNoNinth(b, n + 1, [value |-> value, bytes |-> bytes])

Varint_new_NoNinth(b) == VarintLoopNoNinth(b, 0, [value |-> I64Zero, bytes |-> <<>>])

Varint_new(b) == VarintLoop(b, 0, [value |-> I64Zero, bytes |-> <<>>])

(***************************************************************************)
(* Behaviours exercising Varint::new: the slice is any sequence of at most *)
(* MaxBufLen bytes; the one operation decodes it.                          *)
(***************************************************************************)
InitVarint ==
    /\ mode = "varint"
    /\ IdleViewer
    /\ \/ \E k \in 0..MaxBufLen : buf \in [1..k -> VarintBytes]
       \/ \E k \in 1..MaxPaddedLen : buf \in [1..k -> PaddedBytes]
       \/ buf \in NineByteRuns
    /\ varint = NoResult
    /\ IdleReader
    /\ IdleCell
    /\ IdleTree

VarintNew ==
    /\ mode = "varint"
    /\ varint = NoResult
    /\ varint' = Varint_new(buf)
    /\ UNCHANGED <<mode, viewerVars, buf, readerVars, cellVars, treeVars>>

NextVarint == VarintNew

SpecVarint == InitVarint /\ [][NextVarint]_vars

(***************************************************************************)
(* The reference decoding, stated on bit strings (most significant bit     *)
(* first) instead of shifts: the payload bits of the consumed bytes are    *)
(* concatenated and the low 64 bits of the result are the value.           *)
(***************************************************************************)
Bits(x, w) == [j \in 1..w |-> (x \div (2 ^ (w - j))) % 2]

I64Bits(v) == Bits(v[1], 16) \o Bits(v[2], 16) \o Bits(v[3], 16) \o Bits(v[4], 16)

\* The number of bytes the reference decoding scans: up to and including the
\* first byte with a clear high bit, nine at most, the whole slice if it ends first.
RefConsumed(b) ==
    LET stops == {i \in 1..Len(b) : i = 9 \/ b[i] < 128}
    IN  IF stops = {} THEN Len(b)
        ELSE CHOOSE i \in stops : \A j \in stops : i <= j

RECURSIVE RefPayloadBits(_, _)
RefPayloadBits(b, n) ==
    IF n = 0 THEN <<>>
    ELSE RefPayloadBits(b, n - 1)
            \o (IF n = 9 THEN Bits(b[n], 8) ELSE Bits(b[n] % 128, 7))

Low64(bits) ==
    IF Len(bits) >= 64 THEN SubSeq(bits, Len(bits) - 63, Len(bits))
    ELSE [j \in 1..(64 - Len(bits)) |-> 0] \o bits

RefValueBits(b) == Low64(RefPayloadBits(b, RefConsumed(b)))

IsPrefix(p, s) == Len(p) <= Len(s) /\ SubSeq(s, 1, Len(p)) = p

NineHighBytes == [i \in 1..9 |-> 136]

\* C10: for every byte slice, the value Varint::new returns is the reference
\* decoding on a 64-bit accumulator: 7 bits from each of the first eight
\* bytes up to the first byte with a clear high bit, all 8 bits of a ninth
\* byte, and the value accumulated so far when the slice ends first; with
\* 0x88 0x43 -> 1091, 0x04 -> 4 and nine 0x88 bytes -> 0x1020408102040888.
C10_VarintValue ==
    (mode = "varint" /\ varint # NoResult) =>
        /\ I64Bits(varint.value) = RefValueBits(buf)
        /\ (buf = <<136, 67>> => varint.value = <<0, 0, 0, 1091>>)
        /\ (IsPrefix(<<4>>, buf) => varint.value = <<0, 0, 0, 4>>)
        /\ (IsPrefix(NineHighBytes, buf) => varint.value = <<4128, 16513, 516, 2184>>)

\* Reached: a ten-byte slice of 0x88 bytes has been decoded as a nine-byte varint.
C10_Witness ==
    /\ mode = "varint"
    /\ varint # NoResult
    /\ buf = [i \in 1..10 |-> 136]
    /\ varint.value = <<4128, 16513, 516, 2184>>

\* C11: for every byte slice Varint::new consumes between 1 and 9 bytes and
\* records exactly the consumed leading bytes: up to and including the first
\* byte with a clear high bit, or the ninth byte.
C11_ConsumedRun ==
    (mode = "varint" /\ varint # NoResult) =>
        /\ Len(varint.bytes) >= 1
        /\ Len(varint.bytes) <= 9
        /\ varint.bytes = SubSeq(buf, 1, RefConsumed(buf))

(***************************************************************************)
(* The SQLite varint of a 64-bit value (putVarint of the file format): all *)
(* nine bytes when one of the top eight bits is set, else the 7-bit groups *)
(* of the low 56 bits from the first non-zero group on, the high bit set   *)
(* on every byte but the last.                                             *)
(***************************************************************************)
RECURSIVE BitsVal(_)
BitsVal(bits) ==
    IF Len(bits) = 0 THEN 0
    ELSE 2 * BitsVal(SubSeq(bits, 1, Len(bits) - 1)) + bits[Len(bits)]

\* The i-th 7-bit group (most significant first) of a bit string.
Group7(bits, i) == BitsVal(SubSeq(bits, 7 * (i - 1) + 1, 7 * i))

RefEncodeBits(bits) ==
    IF BitsVal(SubSeq(bits, 1, 8)) # 0
    THEN [i \in 1..9 |-> IF i = 9 THEN BitsVal(SubSeq(bits, 57, 64))
                         ELSE 128 + Group7(bits, i)]
    ELSE
        LET low == SubSeq(bits, 9, 64)
            used == {i \in 1..8 : Group7(low, i) # 0} \cup {8}
            first == CHOOSE i \in used : \A j \in used : i <= j
        IN  [i \in 1..(9 - first) |->
                (IF i = 9 - first THEN 0 ELSE 128) + Group7(low, first + i - 1)]

RefEncode(value) == RefEncodeBits(I64Bits(value))

\* The run is complete (it ends with a byte whose high bit is clear, or is
\* nine bytes long) and its first byte carries payload: for a run of nine
\* bytes one of the top eight bits of the value is set, a shorter run of
\* more than one byte does not start with 0x80.
CanonicalRun(bytes) ==
    /\ Len(bytes) >= 1
    /\ Len(bytes) = 9 \/ bytes[Len(bytes)] < 128
    /\ \/ Len(bytes) = 1
       \/ Len(bytes) < 9 /\ bytes[1] # 128
       \/ Len(bytes) = 9 /\ (bytes[1] # 128 \/ bytes[2] % 128 >= 64)

\* C12: round trip: re-encoding the value of every varint Varint::new decodes
\* gives the byte run it consumed.
C12_RoundTrip ==
    (mode = "varint" /\ varint # NoResult /\ Len(varint.bytes) >= 1) =>
        RefEncode(varint.value) = varint.bytes

\* C12 as amended: the re-encoded value is the consumed run exactly when the
\* run is a canonical varint: complete, and without leading bytes that carry
\* no payload.
C12_RoundTripCanonical ==
    (mode = "varint" /\ varint # NoResult) =>
        (RefEncode(varint.value) = varint.bytes <=> CanonicalRun(varint.bytes))

\* Reached: a canonical run of nine bytes has been decoded and re-encoded.
C12_Witness ==
    /\ mode = "varint"
    /\ varint # NoResult
    /\ Len(varint.bytes) = 9
    /\ CanonicalRun(varint.bytes)
    /\ RefEncode(varint.value) = varint.bytes

(***************************************************************************)
(* Results: Ok(v) and Err(msg) of Result<T, StdError>.                     *)
(***************************************************************************)
Ok(v) == [ok |-> TRUE, val |-> v]
Err(msg) == [ok |-> FALSE, panic |-> FALSE, err |-> msg]
\* A panic (index out of range, unreachable!, arithmetic overflow) unwinds
\* through every caller: no `?` or `if let Ok` catches it.
Panic(msg) == [ok |-> FALSE, panic |-> TRUE, err |-> msg]

\* Option<T>.
None == [some |-> FALSE]
Some(v) == [some |-> TRUE, v |-> v]

(***************************************************************************)
(* Big-endian fixed-width integers (the slc! macro with a type).           *)
(***************************************************************************)
\* slc!(buf, offset, len): the bytes at 0-based offsets [offset, offset + len).
slc(b, offset, len) == SubSeq(b, offset + 1, offset + len)

RECURSIVE from_be_bytes(_)
from_be_bytes(b) ==
    IF Len(b) = 0 THEN 0
    ELSE from_be_bytes(SubSeq(b, 1, Len(b) - 1)) * 256 + b[Len(b)]

\* The encodings a database writer produces (used to build images).
U16BE(x) == <<x \div 256, x % 256>>
U32BE(x) == <<x \div 16777216, (x \div 65536) % 256, (x \div 256) % 256, x % 256>>

(***************************************************************************)
(* header.rs: the database header, the fields the decoder reads.           *)
(***************************************************************************)
DB_HEADER_SIZE == 100

\* TextEncoding::try_from with the two UTF-16 byte orders exchanged.
TextEncoding_try_from_Swapped(val) ==
    CASE val = 1 -> Ok("UTF8")
      [] val = 2 -> Ok("UTF16be")
      [] val = 3 -> Ok("UTF16le")
      [] OTHER -> Err("Wrong db encoding value")

TextEncoding_try_from(val) ==
    CASE val = 1 -> Ok("UTF8")
      [] val = 2 -> Ok("UTF16le")
      [] val = 3 -> Ok("UTF16be")
      [] OTHER -> Err("Wrong db encoding value")

\* The page size of the 16-bit header field: the field value 1 stands for 65536.
DBHeader_page_size(field) == IF field = 1 THEN 65536 ELSE field

\* std::str::from_utf8: whether the bytes are well-formed UTF-8. Continuation
\* bytes (128..191) never start a character, so the scan from the first byte
\* stops exactly at the other bytes: each of them must lead a well-formed
\* character that the next character or the end follows.
Utf8Valid(b) ==
    LET is_cont(i) == i <= Len(b) /\ b[i] >= 128 /\ b[i] <= 191
        need(c) == CASE c < 128 -> 0
                     [] c \in 194..223 -> 1
                     [] c \in 224..239 -> 2
                     [] c \in 240..244 -> 3
                     [] OTHER -> -1
        second(c, d) == CASE c = 224 -> d >= 160 /\ d <= 191
                          [] c = 237 -> d >= 128 /\ d <= 159
                          [] c = 240 -> d >= 144 /\ d <= 191
                          [] c = 244 -> d >= 128 /\ d <= 143
                          [] OTHER -> d >= 128 /\ d <= 191
    IN  /\ ~is_cont(1)
        /\ \A i \in 1..Len(b) :
              ~is_cont(i) =>
                /\ need(b[i]) >= 0
                /\ i + need(b[i]) <= Len(b)
                /\ \A j \in 1..need(b[i]) : is_cont(i + j)
                /\ need(b[i]) >= 1 => second(b[i], b[i + 1])
                /\ ~is_cont(i + need(b[i]) + 1)

\* The arguments of DBHeader::new are evaluated in order: the header string
\* (from_utf8 of the first 16 bytes) fails before the text encoding does.
DBHeader_try_from(b) ==
    LET enc == TextEncoding_try_from(from_be_bytes(slc(b, 56, 4)))
    IN  IF ~Utf8Valid(slc(b, 0, 16)) THEN Err("invalid utf-8 sequence")
        ELSE IF ~enc.ok THEN enc
        ELSE Ok([page_size |-> DBHeader_page_size(from_be_bytes(slc(b, 16, 2))),
                 reserved_page_space |-> from_be_bytes(slc(b, 20, 1)),
                 file_change_counter |-> from_be_bytes(slc(b, 24, 4)),
                 db_size |-> from_be_bytes(slc(b, 28, 4)),
                 first_free_page_num |-> from_be_bytes(slc(b, 32, 4)),
                 text_encoding |-> enc.val,
                 version_valid_for_number |-> from_be_bytes(slc(b, 92, 4))])

(***************************************************************************)
(* reader.rs: Reader. usize is 64 bits wide; with page numbers and sizes   *)
(* of the model no product comes near it.                                  *)
(***************************************************************************)
Reader_new(bytes) ==
    IF Len(bytes) < DB_HEADER_SIZE
    THEN Err("Incomplete database header of read")
    ELSE
        LET h == DBHeader_try_from(SubSeq(bytes, 1, DB_HEADER_SIZE))
        IN  IF ~h.ok THEN h
            ELSE Ok([bytes |-> bytes, db_header |-> h.val])

\* pages_total with `||` for `&&`: the declared size trusted whenever it is
\* non-zero or the counters agree.
Reader_pages_total_Or(r) ==
    IF r.db_header.db_size # 0
        \/ r.db_header.file_change_counter = r.db_header.version_valid_for_number
    THEN r.db_header.db_size
    ELSE Len(r.bytes) \div r.db_header.page_size

Reader_pages_total(r) ==
    IF r.db_header.db_size # 0
        /\ r.db_header.file_change_counter = r.db_header.version_valid_for_number
    THEN r.db_header.db_size
    ELSE Len(r.bytes) \div r.db_header.page_size

\* page_offset counting pages from 0: the window of page n starts at n * page_size.
Reader_page_offset_ZeroBased(r, page_num) == page_num * r.db_header.page_size

Reader_page_offset(r, page_num) == (page_num - 1) * r.db_header.page_size

\* validate_page_bounds without the comparison with pages_total().
Reader_validate_page_bounds_NoTotal(r, page_num) ==
    IF page_num = 0
    THEN Err("Out of bounds page access")
    ELSE
        LET page_end == Reader_page_offset(r, page_num) + r.db_header.page_size
        IN  IF Len(r.bytes) < page_end
            THEN Err("Incomplete page of read")
            ELSE Ok(<<>>)

Reader_validate_page_bounds(r, page_num) ==
    LET pages_total == Reader_pages_total(r)
    IN  IF page_num > pages_total \/ page_num = 0
        THEN Err("Out of bounds page access")
        ELSE
            LET page_end == Reader_page_offset(r, page_num) + r.db_header.page_size
            IN  IF Len(r.bytes) < page_end
                THEN Err("Incomplete page of read")
                ELSE Ok(<<>>)

\* page_slice with the page size narrowed to 16 bits for the window's width.
Reader_page_slice_U16(r, page_num) ==
    LET v == Reader_validate_page_bounds(r, page_num)
    IN  IF ~v.ok THEN v
        ELSE
            LET page_offset == Reader_page_offset(r, page_num)
                page_size == r.db_header.page_size % 65536
            IN  Ok(SubSeq(r.bytes, page_offset + 1, page_offset + page_size))

Reader_page_slice(r, page_num) ==
    LET v == Reader_validate_page_bounds(r, page_num)
    IN  IF ~v.ok THEN v
        ELSE
            LET page_offset == Reader_page_offset(r, page_num)
                page_size == r.db_header.page_size
            IN  Ok(SubSeq(r.bytes, page_offset + 1, page_offset + page_size))

\* The four page accessors up to the decoder's input: each slices the page
\* window and hands it to its decoder (Page, OverflowPage, TrunkFreelistPage,
\* LeafFreelistPage); a failed slice is returned before any decoding.
Reader_get_page(r, decoder, page_num) ==
    LET s == Reader_page_slice(r, page_num)
    IN  IF ~s.ok THEN s
        ELSE Ok([decoder |-> decoder, buf |-> s.val])

(***************************************************************************)
(* Behaviours exercising the Reader's page store: an image with a database *)
(* header and some content, then any calls of pages_total and of the four  *)
(* page accessors.                                                         *)
(***************************************************************************)
\* The image is at most this many 512-byte blocks long (plus a partial block).
MaxImageBlocks == 4
\* The largest declared size in pages, and the largest page number asked for.
MaxDbSize == 5
MaxPageNum == 6

PageSizes == {512, 1024}
ImageTails == {0, 100, 511}

\* Content of the image after the database header: every offset holds a byte
\* that tells it from the offsets a page apart.
ContentByte(offset) == offset % 251

HeaderBytes(page_size_field, reserved, fcc, db_size, enc, vvf) ==
    [i \in 1..DB_HEADER_SIZE |->
        LET o == i - 1
        IN  CASE o \in 16..17 -> U16BE(page_size_field)[o - 15]
              [] o = 20 -> reserved
              [] o \in 24..27 -> U32BE(fcc)[o - 23]
              [] o \in 28..31 -> U32BE(db_size)[o - 27]
              [] o \in 56..59 -> U32BE(enc)[o - 55]
              [] o \in 92..95 -> U32BE(vvf)[o - 91]
              [] OTHER -> 0]

ImageOf(header, len) ==
    [i \in 1..len |-> IF i <= DB_HEADER_SIZE THEN header[i] ELSE ContentByte(i - 1)]

InitReader ==
    /\ mode = "reader"
    /\ IdleViewer
    /\ \E ps \in PageSizes, blocks \in 0..MaxImageBlocks, tail \in ImageTails,
          db_size \in 0..MaxDbSize, vvf \in {7, 8} :
        LET len == blocks * 512 + tail
        IN  /\ len >= DB_HEADER_SIZE
            /\ reader = Reader_new(ImageOf(HeaderBytes(ps, 0, 7, db_size, 1, vvf), len)).val
    /\ call = NoResult
    /\ ret = NoResult
    /\ IdleVarint
    /\ IdleCell
    /\ IdleTree

PagesTotal ==
    /\ mode = "reader"
    /\ call' = [op |-> "pages_total", page_num |-> 0]
    /\ ret' = Reader_pages_total(reader)
    /\ UNCHANGED <<mode, viewerVars, reader, varintVars, cellVars, treeVars>>

GetBtreePage ==
    /\ mode = "reader"
    /\ \E n \in 0..MaxPageNum :
        /\ call' = [op |-> "get_btree_page", page_num |-> n]
        /\ ret' = Reader_get_page(reader, "Page", n)
    /\ UNCHANGED <<mode, viewerVars, reader, varintVars, cellVars, treeVars>>

GetOverflowPage ==
    /\ mode = "reader"
    /\ \E n \in 0..MaxPageNum :
        /\ call' = [op |-> "get_overflow_page", page_num |-> n]
        /\ ret' = Reader_get_page(reader, "OverflowPage", n)
    /\ UNCHANGED <<mode, viewerVars, reader, varintVars, cellVars, treeVars>>

GetTrunkFreelistPage ==
    /\ mode = "reader"
    /\ \E n \in 0..MaxPageNum :
        /\ call' = [op |-> "get_trunk_freelist_page", page_num |-> n]
        /\ ret' = Reader_get_page(reader, "TrunkFreelistPage", n)
    /\ UNCHANGED <<mode, viewerVars, reader, varintVars, cellVars, treeVars>>

GetLeafFreelistPage ==
    /\ mode = "reader"
    /\ \E n \in 0..MaxPageNum :
        /\ call' = [op |-> "get_leaf_freelist_page", page_num |-> n]
        /\ ret' = Reader_get_page(reader, "LeafFreelistPage", n)
    /\ UNCHANGED <<mode, viewerVars, reader, varintVars, cellVars, treeVars>>

NextReader ==
    \/ PagesTotal
    \/ GetBtreePage
    \/ GetOverflowPage
    \/ GetTrunkFreelistPage
    \/ GetLeafFreelistPage

SpecReader == InitReader /\ [][NextReader]_vars

PageAccessors ==
    {"get_btree_page", "get_overflow_page", "get_trunk_freelist_page",
     "get_leaf_freelist_page"}

\* The image bytes at 0-based offsets [lo, hi).
ImageWindow(lo, hi) == [i \in 1..(hi - lo) |-> reader.bytes[lo + i]]

\* C3: each page accessor, asked for page n, returns an error and decodes
\* nothing when n = 0, n > pages_total() or n * page_size exceeds the image
\* length; otherwise what it decodes is exactly the image bytes
\* [(n-1) * page_size, n * page_size).
C3_PageBounds ==
    (mode = "reader" /\ call # NoResult /\ call.op \in PageAccessors) =>
        LET n == call.page_num
            ps == reader.db_header.page_size
            out == \/ n = 0
                   \/ n > Reader_pages_total(reader)
                   \/ n * ps > Len(reader.bytes)
        IN  /\ out => ~ret.ok
            /\ ~out => /\ ret.ok
                       /\ ret.val.buf = ImageWindow((n - 1) * ps, n * ps)

\* Reached: a page above the first was sliced, and a page number inside the
\* declared total was refused because the image ends before it.
C3_Witness ==
    /\ mode = "reader"
    /\ call # NoResult
    /\ call.op = "get_overflow_page"
    /\ \/ (ret.ok /\ call.page_num = 3 /\ reader.db_header.page_size = 512)
       \/ (~ret.ok /\ call.page_num \in 1..Reader_pages_total(reader))

\* C4: pages_total() is the header's declared size in pages when that size
\* is non-zero and the change counter equals the version-valid-for counter,
\* and floor(image length / page size) in every other case.
C4_PagesTotal ==
    (mode = "reader" /\ call # NoResult /\ call.op = "pages_total") =>
        LET h == reader.db_header
            authoritative ==
                h.db_size # 0 /\ h.file_change_counter = h.version_valid_for_number
        IN  /\ authoritative => ret = h.db_size
            /\ ~authoritative =>
                /\ ret * h.page_size <= Len(reader.bytes)
                /\ Len(reader.bytes) < (ret + 1) * h.page_size

\* Reached: a non-zero declared size was set aside for the image length
\* because the counters differ.
C4_Witness ==
    /\ mode = "reader"
    /\ call # NoResult
    /\ call.op = "pages_total"
    /\ reader.db_header.db_size = 5
    /\ reader.db_header.file_change_counter # reader.db_header.version_valid_for_number
    /\ ret = 2

(***************************************************************************)
(* Behaviours that open an image: Reader::new on an image that may be too  *)
(* short, carry an unknown text encoding or a damaged header string, or    *)
(* declare 65536-byte pages; then any calls on the Reader it returned.     *)
(***************************************************************************)
\* Images of 65536-byte pages (page-size field 0x0001): at most this many
\* whole pages, and a partial page of DB_HEADER_SIZE bytes after them.
MaxBigPages == 2

\* The header string: the 16 bytes "SQLite format 3\0".
HeaderString == <<83, 81, 76, 105, 116, 101, 32, 102, 111, 114, 109, 97, 116, 32, 51, 0>>

\* An image with the header string in place, or with its first byte damaged.
WithHeaderString(image, first) ==
    [i \in 1..Len(image) |->
        IF i = 1 THEN first
        ELSE IF i <= Len(HeaderString) THEN HeaderString[i]
        ELSE image[i]]

OpenLengths == {0, 99, 100, 612}
OpenEncodings == {0, 1, 2, 3, 4, 256}

\* What is opened: <<length, page-size field, declared size, text-encoding
\* field, first byte>>.
OpenImages ==
    {<<len, 512, 0, enc, 83>> : len \in OpenLengths, enc \in OpenEncodings}
        \cup {<<612, 512, 0, enc, 255>> : enc \in {1, 4}}
        \cup {<<pages * 65536 + DB_HEADER_SIZE, 1, db_size, 1, 83>> :
                pages \in 1..MaxBigPages, db_size \in {0, 3}}

InitOpen ==
    /\ mode = "open"
    /\ IdleViewer
    /\ \E image \in OpenImages :
        call = [op |-> "image", page_num |-> 0, len |-> image[1], field |-> image[2],
                db_size |-> image[3], enc |-> image[4], first |-> image[5]]
    /\ reader = NoResult
    /\ ret = NoResult
    /\ IdleVarint
    /\ IdleCell
    /\ IdleTree

\* Reader::new on the image: the Reader, if one is returned, is the one the
\* later calls are made on.
ReaderNew ==
    /\ mode = "open"
    /\ call.op = "image"
    /\ call' = [call EXCEPT !.op = "new"]
    /\ ret' = Reader_new(WithHeaderString(
                  ImageOf(HeaderBytes(call.field, 0, 7, call.db_size, call.enc, 7),
                          call.len),
                  call.first))
    /\ reader' = IF ret'.ok THEN ret'.val ELSE reader
    /\ UNCHANGED <<mode, viewerVars, varintVars, cellVars, treeVars>>

OpenedPagesTotal ==
    /\ mode = "open"
    /\ reader # NoResult
    /\ call' = [op |-> "pages_total", page_num |-> 0]
    /\ ret' = Reader_pages_total(reader)
    /\ UNCHANGED <<mode, viewerVars, reader, varintVars, cellVars, treeVars>>

AccessorOf(decoder) ==
    CASE decoder = "Page" -> "get_btree_page"
      [] decoder = "OverflowPage" -> "get_overflow_page"
      [] decoder = "TrunkFreelistPage" -> "get_trunk_freelist_page"
      [] decoder = "LeafFreelistPage" -> "get_leaf_freelist_page"

OpenedGetPage ==
    /\ mode = "open"
    /\ reader # NoResult
    /\ \E n \in 0..(MaxBigPages + 1),
          decoder \in {"Page", "OverflowPage", "TrunkFreelistPage", "LeafFreelistPage"} :
        /\ call' = [op |-> AccessorOf(decoder), page_num |-> n]
        /\ ret' = Reader_get_page(reader, decoder, n)
    /\ UNCHANGED <<mode, viewerVars, reader, varintVars, cellVars, treeVars>>

NextOpen ==
    \/ ReaderNew
    \/ OpenedPagesTotal
    \/ OpenedGetPage

SpecOpen == InitOpen /\ [][NextOpen]_vars

C18_ReaderConstruction ==
    (mode = "open" /\ call.op = "new") =>
        /\ (call.len < 100 \/ call.enc \notin {1, 2, 3}) =>
                (~ret.ok /\ ~ret.panic)
        /\ (call.len >= 100 /\ call.enc \in {1, 2, 3} /\ call.first = 83) => ret.ok
        /\ ret.ok =>
                ret.val.db_header.text_encoding =
                    (CASE call.enc = 1 -> "UTF8"
                       [] call.enc = 2 -> "UTF16le"
                       [] call.enc = 3 -> "UTF16be")

\* Reached: an image long enough was refused for its text-encoding field,
\* whose low byte alone would not tell it from a known one.
C18_Witness ==
    /\ mode = "open"
    /\ call.op = "new"
    /\ call.len = 612
    /\ call.enc = 256
    /\ call.first = 83
    /\ ~ret.ok
    /\ ret.err = "Wrong db encoding value"

(***************************************************************************)
(* i64 -> machine integers. The images of the model hold no varint above   *)
(* 2^30, where the conversions below are exact; a negative i64 maps to -1  *)
(* (every negative serial type takes the same branch) and a larger one to  *)
(* 2^30.                                                                   *)
(***************************************************************************)
I64ToInt(v) ==
    IF v[1] >= 32768 THEN -1
    ELSE IF v[1] = 0 /\ v[2] = 0 /\ v[3] < 16384 THEN v[3] * 65536 + v[4]
    ELSE 1073741824

\* `value as usize` / `value as u64` of a non-negative i64.
AsUsize(v) == IF v[1] >= 32768 THEN 1073741824 ELSE I64ToInt(v)

(***************************************************************************)
(* record.rs: RecordCode::size, RecordValue::new, RecordHeader, Record.    *)
(***************************************************************************)
\* Defined for the codes RecordCode::size accepts (see RecordCode_valid).
RecordCode_size(code) ==
    CASE code \in {0, 8, 9, 12, 13} -> 0
      [] code = 1 -> 1
      [] code = 2 -> 2
      [] code = 3 -> 3
      [] code = 4 -> 4
      [] code = 5 -> 6
      [] code = 6 -> 8
      [] code = 7 -> 8
      [] code >= 12 /\ code % 2 = 0 -> (code - 12) \div 2
      [] code >= 13 /\ code % 2 # 0 -> (code - 13) \div 2

\* The codes for which RecordCode::size does not reach unreachable!().
RecordCode_valid(code) == code >= 0 /\ code # 10 /\ code # 11

\* The String of a text column: for UTF-8 its bytes once validated; for the
\* UTF-16 encodings the code units must pair up (an odd byte count is an error).
Text_decode(text_encoding, bytes) ==
    IF text_encoding = "UTF8"
    THEN IF Utf8Valid(bytes) THEN Ok(bytes) ELSE Err("invalid utf-8 sequence")
    ELSE IF Len(bytes) % 2 = 0 THEN Ok(<<text_encoding, bytes>>)
         ELSE Err("invalid utf-16 sequence")

\* Signed big-endian integer of at most 4 bytes (iN::from_be_bytes).
SignedBE(b) ==
    LET top == IF b[1] >= 128 THEN b[1] - 256 ELSE b[1]
    IN  from_be_bytes(SubSeq(b, 2, Len(b))) + top * (256 ^ (Len(b) - 1))

\* i64::from_be_bytes of 8 bytes, as limbs.
I64FromBE(b) == [i \in 1..4 |-> b[2 * i - 1] * 256 + b[2 * i]]

\* The Text arm of RecordValue::new once the bytes are decoded.
RecordValue_text(bytes, text) ==
    IF ~text.ok THEN text
    ELSE Ok([value |-> [type |-> "Text", v |-> Some(text.val)], bytes |-> Some(bytes)])

RecordValue_new(code, text_encoding, b) ==
    IF ~RecordCode_valid(code) THEN Panic("Record Value of unknown serial type.")
    ELSE
        LET size == RecordCode_size(code)
            fixed(type, v) ==
                Ok([value |-> [type |-> type, v |-> v], bytes |-> Some(SubSeq(b, 1, size))])
            short == Len(b) < size
            max_size == IF size < Len(b) THEN size ELSE Len(b)
        IN  CASE code = 0 -> Ok([value |-> [type |-> "Null", v |-> <<>>], bytes |-> None])
              [] code \in {1, 2, 4} /\ short -> Panic("range end index out of range")
              [] code \in {3, 5, 6, 7} /\ short -> Panic("range end index out of range")
              [] code = 1 -> fixed("I8", SignedBE(SubSeq(b, 1, size)))
              [] code = 2 -> fixed("I16", SignedBE(SubSeq(b, 1, size)))
              [] code = 3 -> fixed("I24", SignedBE(<<0>> \o SubSeq(b, 1, size)))
              [] code = 4 -> fixed("I32", SignedBE(SubSeq(b, 1, size)))
              [] code = 5 -> fixed("I48", I64FromBE(<<0, 0>> \o SubSeq(b, 1, size)))
              [] code = 6 -> fixed("I64", I64FromBE(SubSeq(b, 1, size)))
              [] code = 7 -> fixed("F64", SubSeq(b, 1, size))
              [] code = 8 -> Ok([value |-> [type |-> "Zero", v |-> 0], bytes |-> None])
              [] code = 9 -> Ok([value |-> [type |-> "One", v |-> 1], bytes |-> None])
              [] code >= 12 /\ code % 2 = 0 ->
                    IF max_size > 0
                    THEN Ok([value |-> [type |-> "Blob",
                                        v |-> Some(SubSeq(b, 1, max_size))],
                             bytes |-> Some(SubSeq(b, 1, max_size))])
                    ELSE Ok([value |-> [type |-> "Blob", v |-> None], bytes |-> None])
              [] code >= 13 /\ code % 2 # 0 ->
                    IF max_size > 0
                    THEN RecordValue_text(SubSeq(b, 1, max_size),
                                          Text_decode(text_encoding, SubSeq(b, 1, max_size)))
                    ELSE Ok([value |-> [type |-> "Text", v |-> None], bytes |-> None])

\* bytes.as_ref().map_or(0, |b| b.len())
BytesLen(opt) == IF opt.some THEN Len(opt.v) ELSE 0

\* The `while offset < datatype_buf.len()` loop of RecordHeader::try_from.
RECURSIVE DatatypesLoop(_, _, _)

DatatypesLoop_push(datatype_buf, offset, datatypes, datatype) ==
    DatatypesLoop(datatype_buf, offset + Len(datatype.bytes), Append(datatypes, datatype))

DatatypesLoop(datatype_buf, offset, datatypes) ==
    IF offset >= Len(datatype_buf) THEN datatypes
    ELSE DatatypesLoop_push(datatype_buf, offset, datatypes,
                            Varint_new(SubSeq(datatype_buf, offset + 1, Len(datatype_buf))))

\* RecordHeader::try_from once the size varint is read. `value - len + 1` in
\* usize: below len it overflows (a panic in a debug build) or wraps to a
\* range the slice rejects (a panic as well).
RecordHeader_sized(b, size) ==
    LET value == AsUsize(size.value)
        datatype_size == value - Len(size.bytes) + 1
    IN  IF value < Len(size.bytes)
        THEN Panic("attempt to subtract with overflow")
        ELSE IF datatype_size > Len(b) \/ Len(size.bytes) > datatype_size
        THEN Panic("slice index out of range")
        ELSE Ok([size |-> size,
                 datatypes |->
                    DatatypesLoop(SubSeq(b, Len(size.bytes) + 1, datatype_size), 0, <<>>)])

RecordHeader_try_from(b) == RecordHeader_sized(b, Varint_new(b))

\* The `for datatype in &header.datatypes` loop of Record::try_from, from
\* datatype number n (1-based) on; returns the values or the failure.
RECURSIVE ValuesLoop(_, _, _, _, _, _)

ValuesLoop_push(text_encoding, b, datatypes, n, offset, values, value) ==
    IF ~value.ok THEN value
    ELSE ValuesLoop(text_encoding, b, datatypes, n + 1,
                    offset + BytesLen(value.val.bytes), Append(values, value.val))

ValuesLoop(text_encoding, b, datatypes, n, offset, values) ==
    IF n > Len(datatypes) THEN Ok(values)
    ELSE IF offset > Len(b) THEN Panic("range start index out of range")
    ELSE
        LET code == I64ToInt(datatypes[n].value)
            bytes == SubSeq(b, offset + 1, Len(b))
        IN  IF ~RecordCode_valid(code) THEN Panic("Record Value of unknown serial type.")
            ELSE IF Len(bytes) = 0 /\ RecordCode_size(code) # 0 THEN Ok(values)
            ELSE ValuesLoop_push(text_encoding, b, datatypes, n, offset, values,
                                 RecordValue_new(code, text_encoding, bytes))

Record_of(header, values) ==
    IF ~values.ok THEN values
    ELSE Ok([header |-> header, values |-> values.val])

Record_with_header(text_encoding, b, header) ==
    IF ~header.ok THEN header
    ELSE Record_of(header.val,
                   ValuesLoop(text_encoding, b, header.val.datatypes, 1,
                              AsUsize(header.val.size.value), <<>>))

Record_try_from(text_encoding, b) ==
    Record_with_header(text_encoding, b, RecordHeader_try_from(b))

(***************************************************************************)
(* cell.rs: Cell::new and Cell::parse_payload. The u64 arithmetic of the   *)
(* spill formula is unsigned: a subtraction below zero panics (debug       *)
(* build).                                                                 *)
(***************************************************************************)
\* The max_payload closures of Cell::new: x of the spill formula.
max_payload_underflows(page_type, u) ==
    IF page_type = "LeafTable" THEN u < 35
    ELSE u < 12 \/ ((u - 12) * 64) \div 255 < 23

\* The bound of the index pages applied to the cells of table leaves too.
max_payload_IndexForAll(page_type, u) == (((u - 12) * 64) \div 255) - 23

max_payload(page_type, u) ==
    IF page_type = "LeafTable" THEN u - 35
    ELSE (((u - 12) * 64) \div 255) - 23

\* The units with a spilled column owed its whole declared size, the bytes
\* already captured on the page counted again.
RECURSIVE UnitsLoopWholeColumn(_, _, _)
UnitsLoopWholeColumn(payload, n, overflow_units) ==
    IF n > Len(payload.header.datatypes) THEN overflow_units
    ELSE
        LET code == I64ToInt(payload.header.datatypes[n].value)
            specified_size == RecordCode_size(code)
            column_size == BytesLen(payload.values[n].bytes)
        IN  IF n <= Len(payload.values) /\ column_size = specified_size
            THEN UnitsLoopWholeColumn(payload, n + 1, overflow_units)
            ELSE UnitsLoopWholeColumn(payload, n + 1,
                    Append(overflow_units,
                           [overflow_type |-> code, bytes_left |-> specified_size]))

\* The `for (n, datatype) in payload.header.datatypes.iter().enumerate()` loop
\* that builds the overflow units, from datatype number n (1-based) on.
RECURSIVE UnitsLoop(_, _, _)
UnitsLoop(payload, n, overflow_units) ==
    IF n > Len(payload.header.datatypes) THEN overflow_units
    ELSE
        LET code == I64ToInt(payload.header.datatypes[n].value)
            specified_size == RecordCode_size(code)
            column_size == BytesLen(payload.values[n].bytes)
        IN  IF n <= Len(payload.values) /\ column_size = specified_size
            THEN UnitsLoop(payload, n + 1, overflow_units)
            ELSE
                LET bytes_left == IF n <= Len(payload.values)
                                  THEN specified_size - column_size
                                  ELSE specified_size
                IN  UnitsLoop(payload, n + 1,
                        Append(overflow_units,
                               [overflow_type |-> code, bytes_left |-> bytes_left]))

\* The spill arithmetic with the `k <= x` test dropped: k bytes kept on the
\* page even when they exceed x.
Cell_spill_AlwaysK(db_header, page_type, payload_varint, b, offset) ==
    LET u == db_header.page_size - db_header.reserved_page_space
        p == AsUsize(payload_varint.value)
        x == max_payload(page_type, u)
        m == (((u - 12) * 32) \div 255) - 23
        k == m + ((p - m) % (u - 4))
    IN  IF p <= x
        THEN Ok([overflow_page |-> 0, payload_size |-> p, overflow_size |-> 0])
        ELSE IF offset + k + 4 > Len(b)
        THEN Panic("range end index out of range")
        ELSE Ok([overflow_page |-> from_be_bytes(slc(b, offset + k, 4)),
                 payload_size |-> k,
                 overflow_size |-> p - k])

\* (overflow_page, payload_size, overflow_size) of parse_payload: the spill
\* arithmetic and the read of the first overflow page number.
Cell_spill(db_header, page_type, payload_varint, b, offset) ==
    LET page_size == db_header.page_size
        reserved_size == db_header.reserved_page_space
        u == page_size - reserved_size
        p == AsUsize(payload_varint.value)
    IN  IF page_size < reserved_size \/ max_payload_underflows(page_type, u)
        THEN Panic("attempt to subtract with overflow")
        ELSE
            LET x == max_payload(page_type, u) IN
            IF p <= x
            THEN Ok([overflow_page |-> 0, payload_size |-> p, overflow_size |-> 0])
            ELSE IF ((u - 12) * 32) \div 255 < 23 \/ p < (((u - 12) * 32) \div 255) - 23
            THEN Panic("attempt to subtract with overflow")
            ELSE
                LET m == (((u - 12) * 32) \div 255) - 23
                    k == m + ((p - m) % (u - 4))
                    on_page == IF k <= x THEN k ELSE m
                IN  IF offset + on_page + 4 > Len(b)
                    THEN Panic("range end index out of range")
                    ELSE Ok([overflow_page |-> from_be_bytes(slc(b, offset + on_page, 4)),
                             payload_size |-> on_page,
                             overflow_size |-> p - on_page])

\* parse_payload once the record of the on-page bytes is parsed: the record
\* and the overflow descriptor; payload_size and overflow_size are its
\* locals, kept for the properties.
Cell_parse_record(spill, payload) ==
    IF ~payload.ok THEN payload
    ELSE IF /\ spill.overflow_size # 0
            /\ \E n \in 1..Len(payload.val.header.datatypes) :
                  ~RecordCode_valid(I64ToInt(payload.val.header.datatypes[n].value))
    THEN Panic("Record Value of unknown serial type.")
    ELSE Ok([payload |-> payload.val,
             overflow |->
                IF spill.overflow_size = 0 THEN None
                ELSE Some([page |-> spill.overflow_page,
                           units |-> UnitsLoop(payload.val, 1, <<>>)]),
             payload_size |-> spill.payload_size,
             overflow_size |-> spill.overflow_size])

\* parse_payload once the sizes are known.
Cell_parse_spilled(db_header, b, offset, spill) ==
    IF ~spill.ok THEN spill
    ELSE IF offset + spill.val.payload_size > Len(b)
    THEN Panic("range end index out of range")
    ELSE Cell_parse_record(
            spill.val,
            Record_try_from(db_header.text_encoding,
                            SubSeq(b, offset + 1, offset + spill.val.payload_size)))

Cell_parse_payload(db_header, page_type, payload_varint, b, offset) ==
    Cell_parse_spilled(db_header, b, offset,
                       Cell_spill(db_header, page_type, payload_varint, b, offset))

\* What Cell::new reads before the payload: the fields of the cell, the
\* payload varint and the offset of the payload.
Cell_head(page_type, b) ==
    LET payload_varint == Varint_new(IF page_type = "InteriorIndex"
                                     THEN SubSeq(b, 5, Len(b)) ELSE b)
        rowid_varint == Varint_new(SubSeq(b, Len(payload_varint.bytes) + 1, Len(b)))
    IN  CASE page_type = "LeafTable" ->
                [fields |-> [cell |-> "TableLeaf", rowid_varint |-> rowid_varint],
                 payload_varint |-> payload_varint,
                 offset |-> Len(payload_varint.bytes) + Len(rowid_varint.bytes)]
          [] page_type = "LeafIndex" ->
                [fields |-> [cell |-> "IndexLeaf"],
                 payload_varint |-> payload_varint,
                 offset |-> Len(payload_varint.bytes)]
          [] page_type = "InteriorIndex" ->
                [fields |-> [cell |-> "IndexInterior",
                             left_page_number |-> from_be_bytes(slc(b, 0, 4))],
                 payload_varint |-> payload_varint,
                 offset |-> 4 + Len(payload_varint.bytes)]

Cell_of(head, r) ==
    IF ~r.ok THEN r
    ELSE Ok(head.fields @@ [payload_varint |-> head.payload_varint,
                            payload |-> r.val.payload,
                            overflow |-> r.val.overflow,
                            payload_size |-> r.val.payload_size,
                            overflow_size |-> r.val.overflow_size])

Cell_with_head(page_type, db_header, b, head) ==
    Cell_of(head,
            Cell_parse_payload(db_header, page_type, head.payload_varint, b, head.offset))

Cell_new(page_type, db_header, b) ==
    IF page_type \in {"InteriorTable", "InteriorIndex"} /\ Len(b) < 4
    THEN Panic("range end index out of range")
    ELSE IF page_type = "InteriorTable"
    THEN Ok([cell |-> "TableInterior",
             left_page_number |-> from_be_bytes(slc(b, 0, 4)),
             rowid_varint |-> Varint_new(SubSeq(b, 5, Len(b)))])
    ELSE Cell_with_head(page_type, db_header, b, Cell_head(page_type, b))

(***************************************************************************)
(* page.rs: the b-tree page decoder.                                       *)
(***************************************************************************)
PAGE_HEADER_SIZE == 12
PAGE_RIGHT_PTR_SIZE == 4
CELL_PTR_SIZE == 2

\* PageHeaderType::try_from taking every unknown byte for a table leaf.
PageHeaderType_try_from_Lenient(byte) ==
    CASE byte = 2 -> Ok("InteriorIndex")
      [] byte = 5 -> Ok("InteriorTable")
      [] byte = 10 -> Ok("LeafIndex")
      [] OTHER -> Ok("LeafTable")

PageHeaderType_try_from(byte) ==
    CASE byte = 2 -> Ok("InteriorIndex")
      [] byte = 5 -> Ok("InteriorTable")
      [] byte = 10 -> Ok("LeafIndex")
      [] byte = 13 -> Ok("LeafTable")
      [] OTHER -> Err("Unexpected btree page type")

PageHeaderType_is_interior(page_type) == page_type \in {"InteriorIndex", "InteriorTable"}

\* u16.checked_sub(1).map_or(65536, |x| (x + 1) as u32): 0 stands for 65536.
ZeroIs65536(x) == IF x = 0 THEN 65536 ELSE x

PageHeader_new(page_type, free_block_offset, cell_num, cell_start_offset, fragmented_free_bytes, page_num) ==
    [page_type |-> page_type,
     free_block_offset |-> free_block_offset,
     cell_num |-> cell_num,
     cell_start_offset |-> cell_start_offset,
     fragmented_free_bytes |-> fragmented_free_bytes,
     page_num |-> page_num,
     size |-> IF PageHeaderType_is_interior(page_type)
              THEN PAGE_HEADER_SIZE
              ELSE PAGE_HEADER_SIZE - PAGE_RIGHT_PTR_SIZE]

\* PageHeader::try_from once the page type byte is read.
PageHeader_typed(b, page_type) ==
    IF ~page_type.ok THEN page_type
    ELSE Ok(PageHeader_new(
            page_type.val,
            IF from_be_bytes(slc(b, 1, 2)) = 0 THEN None
            ELSE Some(from_be_bytes(slc(b, 1, 2))),
            from_be_bytes(slc(b, 3, 2)),
            ZeroIs65536(from_be_bytes(slc(b, 5, 2))),
            from_be_bytes(slc(b, 7, 1)),
            IF PageHeaderType_is_interior(page_type.val)
            THEN Some(from_be_bytes(slc(b, 8, 4)))
            ELSE None))

\* Of the PAGE_HEADER_SIZE bytes the page decoder slices.
PageHeader_try_from(b) ==
    PageHeader_typed(b, PageHeaderType_try_from(from_be_bytes(slc(b, 0, 1))))

CellPointer_try_from(b) ==
    [array |->
        [n \in 1..(Len(b) \div CELL_PTR_SIZE) |->
            ZeroIs65536(from_be_bytes(slc(b, (n - 1) * CELL_PTR_SIZE, CELL_PTR_SIZE)))]]

\* The `for ptr in &cell_pointer.array` loop of Page::try_from, from the
\* pointer after the cells parsed so far. The cells of the table page types
\* are parsed by Cell::new (page.rs calls its table arms by their former
\* names, TableLeafCell::try_from and TableInteriorCell::try_from); the
\* decoder has no arm for the index page types.
RECURSIVE PageCellsLoop(_, _, _, _, _)

PageCellsLoop_push(db_header, page_type, b, array, cells, c) ==
    IF ~c.ok THEN c
    ELSE PageCellsLoop(db_header, page_type, b, array, Append(cells, c.val))

PageCellsLoop(db_header, page_type, b, array, cells) ==
    IF Len(cells) >= Len(array) THEN Ok(cells)
    ELSE IF page_type \notin {"LeafTable", "InteriorTable"}
    THEN Panic("Cell isn't yet implemented for this type.")
    ELSE IF array[Len(cells) + 1] > Len(b) THEN Panic("range start index out of range")
    ELSE PageCellsLoop_push(db_header, page_type, b, array, cells,
                            Cell_new(page_type, db_header,
                                     SubSeq(b, array[Len(cells) + 1] + 1, Len(b))))

\* Page::try_from once the cells are parsed.
Page_of(page_num, b, page_header, cell_pointer, offset, cells) ==
    IF ~cells.ok THEN cells
    ELSE Ok([id |-> page_num,
             page_header |-> page_header,
             cell_pointer |-> cell_pointer,
             unallocated |-> slc(b, offset, page_header.cell_start_offset - offset),
             cells |-> cells.val])

\* Page::try_from once the cell pointer array is read: the unallocated
\* slice, then the cells.
Page_with_array(db_header, page_num, b, page_header, cell_pointer, offset) ==
    IF page_header.cell_start_offset < offset
    THEN Panic("attempt to subtract with overflow")
    ELSE IF page_header.cell_start_offset > Len(b)
    THEN Panic("range end index out of range")
    ELSE Page_of(page_num, b, page_header, cell_pointer, offset,
                 PageCellsLoop(db_header, page_header.page_type, b,
                               cell_pointer.array, <<>>))

\* Page::try_from once the page header is read.
Page_with_header(db_header, page_num, b, offset, page_header) ==
    IF ~page_header.ok THEN page_header
    ELSE IF offset + page_header.val.size + page_header.val.cell_num * CELL_PTR_SIZE > Len(b)
    THEN Panic("range end index out of range")
    ELSE Page_with_array(
            db_header, page_num, b, page_header.val,
            CellPointer_try_from(slc(b, offset + page_header.val.size,
                                     page_header.val.cell_num * CELL_PTR_SIZE)),
            offset + page_header.val.size + page_header.val.cell_num * CELL_PTR_SIZE)

\* Page::try_from with the offset of the page header in the page.
Page_at(db_header, page_num, b, offset) ==
    IF offset + PAGE_HEADER_SIZE > Len(b)
    THEN Panic("range end index out of range")
    ELSE Page_with_header(db_header, page_num, b, offset,
                          PageHeader_try_from(slc(b, offset, PAGE_HEADER_SIZE)))

Page_try_from(db_header, page_num, b) ==
    Page_at(db_header, page_num, b, IF page_num = 1 THEN DB_HEADER_SIZE ELSE 0)

\* get_btree_page once the page is sliced.
Reader_btree_page_of(r, page_num, s) ==
    IF ~s.ok THEN s ELSE Page_try_from(r.db_header, page_num, s.val)

Reader_get_btree_page(r, page_num) ==
    Reader_btree_page_of(r, page_num, Reader_page_slice(r, page_num))

(***************************************************************************)
(* overflow.rs: the overflow page decoder.                                 *)
(***************************************************************************)
\* The `while usable_size > 0 && !overflow_units.is_empty()` loop.
RECURSIVE OverflowLoop(_, _, _, _, _, _)

\* The rest of one round of the loop: the unit goes back to the front of
\* the list with the bytes it still misses, if any.
OverflowLoop_push(text_encoding, b, overflow_units, offset, usable_size, data, unit, bytes, value) ==
    IF ~value.ok THEN value
    ELSE OverflowLoop(
            text_encoding, b,
            IF unit.bytes_left - Len(bytes) > 0
            THEN <<[unit EXCEPT !.bytes_left = unit.bytes_left - Len(bytes)]>>
                    \o Tail(overflow_units)
            ELSE Tail(overflow_units),
            offset + Len(bytes),
            usable_size - Len(bytes),
            Append(data, [bytes |-> bytes, value |-> value.val]))

\* One round of the loop with the bytes it takes for the first unit.
OverflowLoop_take(text_encoding, b, overflow_units, offset, usable_size, data, unit, bytes) ==
    OverflowLoop_push(text_encoding, b, overflow_units, offset, usable_size, data,
                      unit, bytes,
                      RecordValue_new(unit.overflow_type, text_encoding, bytes))

OverflowLoop(text_encoding, b, overflow_units, offset, usable_size, data) ==
    IF usable_size > 0 /\ overflow_units # <<>>
    THEN OverflowLoop_take(text_encoding, b, overflow_units, offset, usable_size, data,
                           overflow_units[1],
                           slc(b, offset,
                               IF overflow_units[1].bytes_left < usable_size
                               THEN overflow_units[1].bytes_left
                               ELSE usable_size))
    ELSE Ok([overflow_units |-> overflow_units, data |-> data,
             offset |-> offset, usable_size |-> usable_size])

\* OverflowPage::try_from once the loop is over.
OverflowPage_of(b, loop) ==
    IF ~loop.ok THEN loop
    ELSE Ok([overflow_units |-> loop.val.overflow_units,
             next_page |-> from_be_bytes(slc(b, 0, 4)),
             data |-> loop.val.data,
             unallocated |->
                IF loop.val.usable_size = 0 THEN None
                ELSE Some(SubSeq(b, loop.val.offset + 1, Len(b)))])

OverflowPage_try_from(text_encoding, overflow_units, b) ==
    IF Len(b) < 4 THEN Panic("range end index out of range")
    ELSE OverflowPage_of(b, OverflowLoop(text_encoding, b, overflow_units, 4,
                                         Len(b) - 4, <<>>))

\* get_overflow_page once the page is sliced.
Reader_overflow_page_of(r, overflow, s) ==
    IF ~s.ok THEN s
    ELSE OverflowPage_try_from(r.db_header.text_encoding, overflow, s.val)

Reader_get_overflow_page(r, overflow, page_num) ==
    Reader_overflow_page_of(r, overflow, Reader_page_slice(r, page_num))

(***************************************************************************)
(* btree.rs: BTreeNode and BTree. A recursion the code never leaves (an    *)
(* overflow chain or a b-tree that leads back into itself) is the result   *)
(* Diverges: the call does not return.                                     *)
(***************************************************************************)
Diverges == [ok |-> FALSE, panic |-> FALSE, err |-> "never returns"]

\* What `?` and a panic pass up but `if let Ok(..)` cannot swallow.
Unwinds(r) == ~r.ok /\ (r.panic \/ r = Diverges)

Range(s) == {s[i] : i \in DOMAIN s}

\* BTreeNode::follow_overflow. Returns [res, visited]: the Result and the
\* numbers of the pages decoded, in order. Once no unit is pending a page
\* decodes the same way every time, so a next pointer to a page already
\* visited is followed forever.
RECURSIVE BTreeNode_follow_overflow(_, _, _, _, _)

\* follow_overflow once the page is decoded.
BTreeNode_follow_overflow_push(opages, next_page, rd, visited, opage) ==
    IF ~opage.ok THEN [res |-> opage, visited |-> visited]
    ELSE IF opage.val.next_page = 0
    THEN [res |-> Ok(Append(opages, opage.val)),
          visited |-> Append(visited, next_page)]
    ELSE IF /\ opage.val.overflow_units = <<>>
            /\ opage.val.next_page \in Range(Append(visited, next_page))
    THEN [res |-> Diverges, visited |-> Append(visited, next_page)]
    ELSE BTreeNode_follow_overflow(Append(opages, opage.val),
                                   opage.val.overflow_units,
                                   opage.val.next_page, rd,
                                   Append(visited, next_page))

BTreeNode_follow_overflow(opages, overflow_units, next_page, rd, visited) ==
    BTreeNode_follow_overflow_push(opages, next_page, rd, visited,
                                   Reader_get_overflow_page(rd, overflow_units, next_page))

\* The `if let Ok(res) = res` of extend_overflow: the pages of the chain go
\* to the list, each under its page number; an error leaves the list as it
\* is.
BTreeNode_extend_overflow_with(overflow, o, res) ==
    IF res.ok
    THEN Ok(overflow \o
            [i \in 1..Len(res.val) |->
                [page |-> res.val[i],
                 page_num |-> IF i = 1 THEN o.page ELSE res.val[i - 1].next_page]])
    ELSE IF Unwinds(res) THEN res
    ELSE Ok(overflow)

\* The extend_overflow closure of BTreeNode::new.
BTreeNode_extend_overflow(overflow, cell_overflow, rd) ==
    IF cell_overflow.some
    THEN BTreeNode_extend_overflow_with(
            overflow, cell_overflow.v,
            BTreeNode_follow_overflow(<<>>, cell_overflow.v.units,
                                      cell_overflow.v.page, rd, <<>>).res)
    ELSE Ok(overflow)

\* BTreeNode::new(page_num, reader); path holds the pages whose BTreeNode::new
\* is still running above this call.
RECURSIVE BTreeNode_new(_, _, _)

\* The `for outer_cell in page.cells.iter()` loop, from cell number n on.
RECURSIVE BTreeNodeCellsLoop(_, _, _, _, _, _)

\* One round of the loop once extend_overflow is through.
BTreeNodeCellsLoop_extended(page, rd, path, n, children, ext) ==
    IF ~ext.ok THEN ext
    ELSE BTreeNodeCellsLoop(page, rd, path, n + 1, children, ext.val)

\* One round of the loop once the child of an interior cell is built.
BTreeNodeCellsLoop_child(page, rd, path, n, children, overflow, child) ==
    IF ~child.ok THEN child
    ELSE BTreeNodeCellsLoop_extended(
            page, rd, path, n,
            IF child.val = NoResult THEN children ELSE Append(children, child.val),
            IF page.cells[n].cell = "TableInterior" THEN Ok(overflow)
            ELSE BTreeNode_extend_overflow(overflow, page.cells[n].overflow, rd))

BTreeNodeCellsLoop(page, rd, path, n, children, overflow) ==
    IF n > Len(page.cells) THEN Ok([children |-> children, overflow |-> overflow])
    ELSE BTreeNodeCellsLoop_child(
            page, rd, path, n, children, overflow,
            IF page.cells[n].cell \in {"TableInterior", "IndexInterior"}
            THEN BTreeNode_new(page.cells[n].left_page_number, rd, path)
            ELSE Ok(NoResult))

\* The node without the child of the right-most pointer.
BTreeNode_with_right_Dropped(page_num, page, loop, right) ==
    IF ~right.ok THEN right
    ELSE Ok([page |-> page,
             page_num |-> page_num,
             children |-> IF loop.children = <<>> THEN None ELSE Some(loop.children),
             overflow |-> IF loop.overflow = <<>> THEN None ELSE Some(loop.overflow)])

\* BTreeNode::new once the right-most child of an interior page is built.
BTreeNode_with_right(page_num, page, loop, right) ==
    IF ~right.ok THEN right
    ELSE Ok([page |-> page,
             page_num |-> page_num,
             children |->
                IF right.val = NoResult
                THEN IF loop.children = <<>> THEN None ELSE Some(loop.children)
                ELSE Some(Append(loop.children, right.val)),
             overflow |-> IF loop.overflow = <<>> THEN None ELSE Some(loop.overflow)])

\* BTreeNode::new once the cells of the page are through.
BTreeNode_with_cells(page_num, rd, path, page, loop) ==
    IF ~loop.ok THEN loop
    ELSE BTreeNode_with_right(
            page_num, page, loop.val,
            IF PageHeaderType_is_interior(page.page_header.page_type)
            THEN BTreeNode_new(page.page_header.page_num.v, rd, path \cup {page_num})
            ELSE Ok(NoResult))

\* BTreeNode::new once the page is decoded.
BTreeNode_with_page(page_num, rd, path, page) ==
    IF ~page.ok THEN page
    ELSE BTreeNode_with_cells(
            page_num, rd, path, page.val,
            BTreeNodeCellsLoop(page.val, rd, path \cup {page_num}, 1, <<>>, <<>>))

BTreeNode_new(page_num, rd, path) ==
    IF page_num \in path THEN Diverges
    ELSE BTreeNode_with_page(page_num, rd, path, Reader_get_btree_page(rd, page_num))

\* RecordValue::merge(self, other): Some(value) with the byte runs of the two
\* values of one type joined, None for values of different types.
RecordValue_merge(self, other) ==
    LET run(opt) == IF opt.some THEN opt.v ELSE <<>>
        bytes == run(self.bytes) \o run(other.bytes)
    IN  IF self.value.type # other.value.type THEN None
        ELSE Some([value |->
                      IF self.value.type \in {"Text", "Blob"}
                      THEN [type |-> self.value.type,
                            v |-> IF bytes = <<>> THEN None ELSE Some(bytes)]
                      ELSE self.value,
                   bytes |-> IF bytes = <<>> THEN None ELSE Some(bytes)])

\* BTree::follow_overflow. Returns [res, visited] like the walk of
\* BTreeNode; a page that holds no value makes `overflow.remove(0)` panic, so
\* this walk returns on every image.
RECURSIVE BTree_follow_overflow(_, _, _, _, _)

\* follow_overflow once the last on-page value and the first value of the
\* page are merged.
BTree_follow_overflow_merged(payload, next_page, rd, visited, opage, value) ==
    IF ~value.some
    THEN [res |-> Panic("Attempt to merge the unexpected Record types."),
          visited |-> Append(visited, next_page)]
    ELSE IF opage.next_page = 0
    THEN [res |-> Ok(SubSeq(payload, 1, Len(payload) - 1) \o <<value.v>> \o
                     [i \in 1..(Len(opage.data) - 1) |-> opage.data[i + 1].value]),
          visited |-> Append(visited, next_page)]
    ELSE BTree_follow_overflow(
            SubSeq(payload, 1, Len(payload) - 1) \o <<value.v>> \o
                [i \in 1..(Len(opage.data) - 1) |-> opage.data[i + 1].value],
            opage.overflow_units, opage.next_page, rd, Append(visited, next_page))

\* follow_overflow once the page is decoded.
BTree_follow_overflow_page(payload, next_page, rd, visited, opage) ==
    IF ~opage.ok THEN [res |-> opage, visited |-> visited]
    ELSE IF Len(payload) = 0
    THEN [res |-> Panic("attempt to subtract with overflow"),
          visited |-> Append(visited, next_page)]
    ELSE IF Len(opage.val.data) = 0
    THEN [res |-> Panic("removal index (is 0) should be < len (is 0)"),
          visited |-> Append(visited, next_page)]
    ELSE BTree_follow_overflow_merged(
            payload, next_page, rd, visited, opage.val,
            RecordValue_merge(payload[Len(payload)], opage.val.data[1].value))

BTree_follow_overflow(payload, overflow_units, next_page, rd, visited) ==
    BTree_follow_overflow_page(payload, next_page, rd, visited,
                               Reader_get_overflow_page(rd, overflow_units, next_page))

\* `v as usize` of the root page column: a negative number becomes a page
\* number beyond every image.
RootPageAsUsize(value) ==
    IF value.type \in {"I48", "I64"} THEN AsUsize(value.v)
    ELSE IF value.v < 0 THEN 1073741824 ELSE value.v

\* The text of a Text column: its bytes.
TextOf(value) == IF value.value.v.some THEN value.value.v.v ELSE <<>>

\* parse_tree once the root node is built.
BTree_of(values, root) ==
    IF ~root.ok THEN root
    ELSE Ok([ttype |-> TextOf(values[1]), name |-> TextOf(values[2]),
             root |-> root.val])

BTree_parse_tree(values, rd) ==
    IF Len(values) < 2 THEN Panic("index out of bounds")
    ELSE IF values[2].value.type # "Text"
    THEN Panic("Unknown type for table schema name.")
    ELSE IF values[1].value.type # "Text"
    THEN Panic("Unknown type for table schema type.")
    ELSE IF Len(values) < 4 THEN Panic("index out of bounds")
    ELSE IF values[4].value.type \notin {"I8", "I16", "I24", "I32", "I48", "I64"}
    THEN Panic("Unknown type for table schema root page.")
    ELSE BTree_of(values, BTreeNode_new(RootPageAsUsize(values[4].value), rd, {}))

\* The `payload` of BTree::new with the pages its walk visited: the on-page
\* values of a cell that does not spill, the values follow_overflow returned
\* of one that does.
BTree_payload(c, rd) ==
    IF c.overflow.some
    THEN BTree_follow_overflow(c.payload.values, c.overflow.v.units,
                               c.overflow.v.page, rd, <<>>)
    ELSE [res |-> Ok(c.payload.values), visited |-> <<>>]

\* BTree::new once the payload is whole.
BTree_with_payload(rd, payload) ==
    IF ~payload.ok THEN payload ELSE BTree_parse_tree(payload.val, rd)

BTree_new(c, rd) == BTree_with_payload(rd, BTree_payload(c, rd).res)

(***************************************************************************)
(* reader.rs: Reader::get_btrees and Reader::collect_cells.                *)
(***************************************************************************)
\* collect_cells(page_num, cells): [res, cells], the Result and the cells
\* pushed so far (they stay in the caller's vector when the call fails).
RECURSIVE Reader_collect_cells(_, _, _, _)

\* The `for cell in page.cells` loop of collect_cells and the right-most
\* child after it, from cell number n on.
RECURSIVE CollectCellsLoop(_, _, _, _, _)

CollectCellsLoop_next(rd, page, path, n, r) ==
    IF ~r.res.ok THEN r
    ELSE CollectCellsLoop(rd, page, path, n + 1, r.cells)

CollectCellsLoop(rd, page, path, n, cells) ==
    IF n > Len(page.cells)
    THEN IF PageHeaderType_is_interior(page.page_header.page_type)
         THEN Reader_collect_cells(rd, page.page_header.page_num.v, cells, path)
         ELSE [res |-> Ok(<<>>), cells |-> cells]
    ELSE CollectCellsLoop_next(
            rd, page, path, n,
            CASE page.cells[n].cell = "TableInterior" ->
                    Reader_collect_cells(rd, page.cells[n].left_page_number, cells, path)
              [] page.cells[n].cell = "TableLeaf" ->
                    [res |-> Ok(<<>>), cells |-> Append(cells, page.cells[n])]
              [] OTHER -> [res |-> Ok(<<>>), cells |-> cells])

\* collect_cells once the page is decoded.
Reader_collect_cells_of(rd, page_num, cells, path, page) ==
    IF ~page.ok THEN [res |-> page, cells |-> cells]
    ELSE CollectCellsLoop(rd, page.val, path \cup {page_num}, 1, cells)

Reader_collect_cells(rd, page_num, cells, path) ==
    IF page_num \in path THEN [res |-> Diverges, cells |-> cells]
    ELSE Reader_collect_cells_of(rd, page_num, cells, path,
                                 Reader_get_btree_page(rd, page_num))

\* The `for cell in cells` loop of get_btrees, from cell number n on.
RECURSIVE BTreesLoop(_, _, _, _)

BTreesLoop_push(rd, cells, n, trees, t) ==
    IF ~t.ok THEN t ELSE BTreesLoop(rd, cells, n + 1, Append(trees, t.val))

BTreesLoop(rd, cells, n, trees) ==
    IF n > Len(cells) THEN Ok(trees)
    ELSE BTreesLoop_push(rd, cells, n, trees, BTree_new(cells[n], rd))

\* get_btrees once the root node of the schema table is built.
Reader_get_btrees_with_root(rd, cells, root) ==
    IF ~root.ok THEN root
    ELSE BTreesLoop(rd, cells, 1,
                    <<[ttype |-> "table", name |-> "master schema",
                       root |-> root.val]>>)

\* get_btrees once collect_cells is through: its Result is dropped.
Reader_get_btrees_collected(rd, c) ==
    IF Unwinds(c.res) THEN c.res
    ELSE Reader_get_btrees_with_root(rd, c.cells, BTreeNode_new(1, rd, {}))

Reader_get_btrees(rd) ==
    Reader_get_btrees_collected(rd, Reader_collect_cells(rd, 1, <<>>, {}))

(***************************************************************************)
(* The database writer: how a well-formed image stores a row (SQLite file  *)
(* format, sections 1.6 and 2.1). A row is a sequence of columns           *)
(* [code, data]; a cell holds the first bytes of the payload and, when the *)
(* payload spills, the number of the first overflow page.                  *)
(***************************************************************************)
\* The canonical varint of 0 <= n < 2^28.
VarintEncode(n) ==
    IF n < 128 THEN <<n>>
    ELSE IF n < 16384 THEN <<128 + (n \div 128), n % 128>>
    ELSE IF n < 2097152
    THEN <<128 + (n \div 16384), 128 + ((n \div 128) % 128), n % 128>>
    ELSE <<128 + (n \div 2097152), 128 + ((n \div 16384) % 128),
           128 + ((n \div 128) % 128), n % 128>>

RECURSIVE Concat(_)
Concat(seqs) == IF Len(seqs) = 0 THEN <<>> ELSE seqs[1] \o Concat(Tail(seqs))

RECURSIVE SumSeq(_)
SumSeq(ns) == IF Len(ns) = 0 THEN 0 ELSE ns[1] + SumSeq(Tail(ns))

\* Column data: ASCII bytes that differ from column to column and along a column.
DataBytes(c, len) == [j \in 1..len |-> (j * 7 + c * 31) % 128]

BlobCol(c, len) == [code |-> 12 + 2 * len, data |-> DataBytes(c, len)]
TextCol(c, len) == [code |-> 13 + 2 * len, data |-> DataBytes(c, len)]
IntCol(code, data) == [code |-> code, data |-> data]
NullCol == [code |-> 0, data |-> <<>>]
OneCol == [code |-> 9, data |-> <<>>]

RecordHeaderOf(cols) ==
    LET serials == Concat([c \in 1..Len(cols) |-> VarintEncode(cols[c].code)])
        size == IF Len(serials) + 1 < 128 THEN Len(serials) + 1 ELSE Len(serials) + 2
    IN  VarintEncode(size) \o serials

PayloadOf(cols) == RecordHeaderOf(cols) \o Concat([c \in 1..Len(cols) |-> cols[c].data])

\* The number of payload bytes a cell keeps on its b-tree page.
LocalPayload(page_type, u, p) ==
    LET x == IF page_type = "LeafTable" THEN u - 35
             ELSE (((u - 12) * 64) \div 255) - 23
        m == (((u - 12) * 32) \div 255) - 23
        k == m + ((p - m) % (u - 4))
    IN  IF p <= x THEN p ELSE IF k <= x THEN k ELSE m

\* Bytes of the page that follow the cell.
CellTail == <<238, 238, 238>>

\* The bytes of the cell before its payload.
CellPrefix(page_type, p, left, rowid) ==
    CASE page_type = "LeafTable" -> VarintEncode(p) \o VarintEncode(rowid)
      [] page_type = "LeafIndex" -> VarintEncode(p)
      [] page_type = "InteriorIndex" -> U32BE(left) \o VarintEncode(p)

WriteCell(page_type, db_header, cols, first_overflow, rowid) ==
    LET payload == PayloadOf(cols)
        p == Len(payload)
        u == db_header.page_size - db_header.reserved_page_space
        local == LocalPayload(page_type, u, p)
        prefix == CellPrefix(page_type, p, 7, rowid)
    IN  [page_type |-> page_type, cols |-> cols, payload |-> payload,
         u |-> u, local |-> local, prefix |-> Len(prefix),
         first_overflow |-> IF local < p THEN first_overflow ELSE 0,
         bytes |-> prefix \o SubSeq(payload, 1, local)
                    \o (IF local < p THEN U32BE(first_overflow) ELSE <<>>)
                    \o CellTail]

(***************************************************************************)
(* Behaviours exercising Cell::new: a row of one of the shapes below, its  *)
(* varying column n bytes long, written as a table-leaf, index-leaf or     *)
(* index-interior cell of a 512-byte page; the one operation decodes it.   *)
(***************************************************************************)
\* The longest varying column.
MaxColLen == 600

PayloadPageTypes == {"LeafTable", "LeafIndex", "InteriorIndex"}
ReservedSizes == {0, 32}
RowShapes == {"blob", "mixed", "between", "split_int"}

\* "between": the columns after the text fill whole overflow pages, so the
\* page boundary falls exactly between two columns; "split_int": it falls
\* inside the 4-byte integer.
RowOf(shape, n, u) ==
    CASE shape = "blob" -> <<BlobCol(1, n)>>
      [] shape = "mixed" ->
            <<IntCol(1, <<5>>), TextCol(2, n), NullCol, IntCol(2, <<1, 2>>), OneCol,
              BlobCol(6, 20)>>
      [] shape = "between" -> <<TextCol(1, n), BlobCol(2, u - 4)>>
      [] shape = "split_int" ->
            <<TextCol(1, n), IntCol(4, <<0, 0, 1, 9>>), BlobCol(3, u - 6)>>

CellHeader(reserved) == DBHeader_try_from(HeaderBytes(512, reserved, 7, 0, 1, 7)).val

InitCell ==
    /\ mode = "cell"
    /\ IdleViewer
    /\ \E page_type \in PayloadPageTypes, reserved \in ReservedSizes,
          shape \in RowShapes, n \in 0..MaxColLen :
        LET h == CellHeader(reserved)
            w == WriteCell(page_type, h, RowOf(shape, n, 512 - reserved), 258, 300)
        IN  /\ written = [w EXCEPT !.bytes = <<>>] @@ [db_header |-> h]
            /\ cell_buf = w.bytes
    /\ cell = NoResult
    /\ IdleVarint
    /\ IdleReader
    /\ IdleTree

CellNew ==
    /\ mode = "cell"
    /\ cell = NoResult
    /\ cell' = Cell_new(written.page_type, written.db_header, cell_buf)
    /\ UNCHANGED <<mode, viewerVars, written, cell_buf, varintVars, readerVars, treeVars>>

NextCell == CellNew

SpecCell == InitCell /\ [][NextCell]_vars

CellDecoded == mode = "cell" /\ cell # NoResult /\ cell.ok

\* The page boundary cuts through a fixed-width column (an integer or a
\* float): RecordValue::new indexes past the on-page bytes and the cell is
\* not decoded.
SplitsFixedColumn ==
    \E c \in 1..Len(written.cols) :
        LET start == Len(RecordHeaderOf(written.cols))
                        + SumSeq([i \in 1..(c - 1) |-> Len(written.cols[i].data)])
        IN  /\ written.cols[c].code \in 1..7
            /\ start < written.local
            /\ written.local < start + Len(written.cols[c].data)

\* C5: the on-page payload length and the overflow length of a decoded
\* TableLeaf, IndexLeaf or IndexInterior cell are those of the spill formula
\* for p = the declared payload size, and the first overflow page number of
\* a spilled cell is the 4-byte big-endian integer right after the on-page
\* payload bytes (no descriptor when nothing spills); and a well-formed cell
\* is decoded, unless the page boundary cuts a fixed-width column.
C5_SpillFormula ==
    /\ (mode = "cell" /\ cell # NoResult) => (cell.ok \/ SplitsFixedColumn)
    /\ CellDecoded =>
        LET p == Len(written.payload)
            u == written.u
            x == IF written.page_type = "LeafTable" THEN u - 35
                 ELSE (((u - 12) * 64) \div 255) - 23
            m == (((u - 12) * 32) \div 255) - 23
            k == m + ((p - m) % (u - 4))
            on_page == IF p <= x THEN p ELSE IF k <= x THEN k ELSE m
            after == written.prefix + on_page
        IN  /\ cell.val.payload_size = on_page
            /\ cell.val.overflow_size = p - on_page
            /\ (p <= x) => (cell.val.overflow_size = 0 /\ cell.val.overflow = None)
            /\ (p > x) =>
                /\ cell.val.overflow_size > 0
                /\ cell.val.overflow.some
                /\ cell.val.overflow.v.page =
                      from_be_bytes(SubSeq(cell_buf, after + 1, after + 4))
                /\ cell.val.overflow.v.page = written.first_overflow

\* Reached: an index-interior cell that keeps k bytes (more than m, fewer
\* than x) on the page, and a table-leaf cell that falls back to m.
C5_Witness ==
    /\ CellDecoded
    /\ cell.val.overflow.some
    /\ cell.val.overflow.v.page = 258
    /\ LET m == (((written.u - 12) * 32) \div 255) - 23
       IN  \/ /\ written.page_type = "InteriorIndex"
              /\ cell.val.payload_size > m
              /\ written.u = 480
           \/ /\ written.page_type = "LeafTable"
              /\ cell.val.payload_size = m
              /\ written.u = 512

\* C28: with a usable size u >= 480 no subtraction of the spill arithmetic
\* underflows, and a cell whose declared payload size p exceeds x keeps
\* between m and x bytes on the page, fewer than p, so it has a positive
\* overflow length and an overflow descriptor; a cell with p <= x has
\* neither.
C28_SpillBounds ==
    (mode = "cell" /\ cell # NoResult) =>
        /\ written.u >= 480
        /\ cell # Panic("attempt to subtract with overflow")
        /\ cell.ok =>
            LET p == AsUsize(cell.val.payload_varint.value)
                u == written.db_header.page_size - written.db_header.reserved_page_space
                x == IF written.page_type = "LeafTable" THEN u - 35
                     ELSE (((u - 12) * 64) \div 255) - 23
                m == (((u - 12) * 32) \div 255) - 23
            IN  /\ (p > x) =>
                    /\ m <= cell.val.payload_size
                    /\ cell.val.payload_size <= x
                    /\ cell.val.payload_size < p
                    /\ cell.val.overflow_size > 0
                    /\ cell.val.overflow_size = p - cell.val.payload_size
                    /\ cell.val.overflow.some
                /\ (p <= x) =>
                    /\ cell.val.overflow_size = 0
                    /\ cell.val.overflow = None

\* Reached: an index-leaf cell on a page of usable size 480 that spills and
\* keeps exactly x = 94 bytes, and one that keeps exactly m = 35 bytes.
C28_Witness ==
    /\ CellDecoded
    /\ written.page_type = "LeafIndex"
    /\ written.u = 480
    /\ cell.val.overflow.some
    /\ cell.val.payload_size \in {35, 94}
    /\ AsUsize(cell.val.payload_varint.value) > 94

(***************************************************************************)
(* The overflow units a row's layout calls for, from where the writer put  *)
(* the columns: column c holds declared(c) bytes from payload offset       *)
(* start(c); the page keeps the payload bytes below written.local.         *)
(***************************************************************************)
ColDeclared(c) == Len(written.cols[c].data)

ColStart(c) ==
    Len(RecordHeaderOf(written.cols))
        + SumSeq([i \in 1..(c - 1) |-> Len(written.cols[i].data)])

ColCaptured(c) ==
    LET room == written.local - ColStart(c)
    IN  IF room <= 0 THEN 0 ELSE IF room < ColDeclared(c) THEN room ELSE ColDeclared(c)

\* Column c is wholly absent from the page: it comes at or after a column that
\* has bytes none of which is on the page.
ColAbsent(c) ==
    \E i \in 1..c : ColDeclared(i) > 0 /\ ColStart(i) >= written.local

RECURSIVE LayoutUnits(_)
LayoutUnits(c) ==
    IF c = 0 THEN <<>>
    ELSE LayoutUnits(c - 1) \o
        (IF ColAbsent(c)
         THEN <<[overflow_type |-> written.cols[c].code, bytes_left |-> ColDeclared(c)]>>
         ELSE IF ColCaptured(c) < ColDeclared(c)
         THEN <<[overflow_type |-> written.cols[c].code,
                 bytes_left |-> ColDeclared(c) - ColCaptured(c)]>>
         ELSE <<>>)

\* The bytes of the record decoded from the page: its header and its values.
OnPageBytes(record) ==
    AsUsize(record.header.size.value)
        + SumSeq([i \in 1..Len(record.values) |-> BytesLen(record.values[i].bytes)])

\* C6: for every decoded cell whose payload spills, the on-page payload bytes
\* plus the bytes_left of its overflow units add up to the declared payload
\* size, and the units are, in column order, one per column the page holds
\* only a part of (owed the deficit) and one per column wholly absent from
\* the page (owed its whole declared size).
C6_UnitsSum ==
    (CellDecoded /\ cell.val.overflow.some) =>
        LET units == cell.val.overflow.v.units
            owed == SumSeq([i \in 1..Len(units) |-> units[i].bytes_left])
        IN  /\ cell.val.payload_size + owed = AsUsize(cell.val.payload_varint.value)
            /\ cell.val.payload_size + owed = Len(written.payload)
            /\ OnPageBytes(cell.val.payload) = cell.val.payload_size
            /\ units = LayoutUnits(Len(written.cols))

\* Reached: a spilled row with a column cut by the page boundary, a sized
\* column and a zero-sized column wholly absent, and a last column absent.
C6_Witness ==
    /\ CellDecoded
    /\ cell.val.overflow.some
    /\ Len(written.cols) = 6
    /\ LET units == cell.val.overflow.v.units
       IN  /\ Len(units) = 4
           /\ units[1].bytes_left > 0
           /\ units[1].bytes_left < ColDeclared(2)
           /\ units[2] = [overflow_type |-> 2, bytes_left |-> 2]
           /\ units[3] = [overflow_type |-> 9, bytes_left |-> 0]
           /\ units[4].bytes_left = 20

(***************************************************************************)
(* The database writer, pages: a b-tree page holds its header, the cell    *)
(* pointer array, a gap and the cells at the end of the usable area; an    *)
(* overflow page holds the next page number and up to usable - 4 content   *)
(* bytes; the reserved region at the end of every page belongs to an       *)
(* extension (its bytes are 'Z' here).                                     *)
(***************************************************************************)
Fill(n, byte) == [i \in 1..n |-> byte]

\* The cell as stored, without the bytes that follow it on the page.
CellBytes(w) == SubSeq(w.bytes, 1, Len(w.bytes) - Len(CellTail))

InteriorCell(left, rowid) == U32BE(left) \o VarintEncode(rowid)

\* lead: the database header on page 1, nothing on the others.
WritePage(lead, type_byte, cells, right_most, page_size, reserved) ==
    LET area == Concat(cells)
        content_start == page_size - reserved - Len(area)
        header == <<type_byte>> \o U16BE(0) \o U16BE(Len(cells)) \o U16BE(content_start)
                    \o <<0>> \o (IF type_byte \in {2, 5} THEN U32BE(right_most) ELSE <<>>)
        ptrs == Concat([i \in 1..Len(cells) |->
                    U16BE(content_start
                            + SumSeq([j \in 1..(i - 1) |-> Len(cells[j])]))])
        used == Len(lead) + Len(header) + Len(ptrs)
    IN  lead \o header \o ptrs \o Fill(content_start - used, 0) \o area
            \o Fill(reserved, 90)

WriteOverflowPage(next, content, page_size, reserved) ==
    U32BE(next) \o content \o Fill(page_size - reserved - 4 - Len(content), 0)
        \o Fill(reserved, 90)

\* The number of overflow pages that hold `len` content bytes.
ChainLen(len, usable) == (len + usable - 5) \div (usable - 4)

\* The chain of `content` on the pages first, first + 1, ...; the last page
\* points to last_next (0 in a well-formed image).
WriteChain(content, page_size, reserved, first, last_next) ==
    LET per == page_size - reserved - 4
        count == ChainLen(Len(content), page_size - reserved)
    IN  Concat([i \in 1..count |->
            WriteOverflowPage(
                IF i < count THEN first + i ELSE last_next,
                SubSeq(content, (i - 1) * per + 1,
                       IF i * per < Len(content) THEN i * per ELSE Len(content)),
                page_size, reserved)])

(***************************************************************************)
(* Behaviours exercising the record decoder alone: the bytes of a record   *)
(* as the database writer stores them, then Record::try_from on them, or   *)
(* OverflowPage::try_from on an overflow page that holds the columns of    *)
(* the record, one unit per column.                                        *)
(***************************************************************************)
\* A long record has LongBase + 0..MaxExtraCols blob columns of 1 MiB each
\* (a serial type of four bytes): with 31 of them the header is 125 bytes
\* and its size a one-byte varint, with 32 it is 130 bytes and its size a
\* two-byte varint.
MaxExtraCols == 3
LongBase == 30
BigBlobCode == 12 + 2 * 1048576

IntCodes == 1..6
IntFirstBytes == {0, 1, 127, 128, 255}
IntRestBytes == {0, 255}
LastCols == {"blob", "int"}

\* The data of a column are the bytes of it the record buffer holds.
\* "int": an integer column of each width, then a text; "reserved": a
\* column of serial type 10 or 11 between two others; "negative": a column
\* whose serial type is the varint of -1; "long": many blob columns of
\* 1 MiB, the first with its first 20 bytes in the buffer and the others
\* wholly on overflow pages, and after them an integer column ("int") or
\* nothing ("blob"); "cut": a column of non-zero size of which the buffer
\* holds the first bytes only, and a column after it; "zeros": columns of
\* size zero only.
CutCodes == {2, 3, 4, 5, 6, 7, 12 + 2 * 8, 13 + 2 * 8}
CutTails == {0, 1, 13 + 2 * 3}
ZeroCodes == {0, 8, 9, 12, 13}
CutCols ==
    {col \in {[code |-> code, data |-> DataBytes(2, keep)] :
                code \in CutCodes, keep \in 1..7} :
        Len(col.data) < RecordCode_size(col.code)}

RecordRows ==
    {[shape |-> "int",
      cols |-> <<IntCol(code, <<first>> \o Fill(RecordCode_size(code) - 1, rest)),
                 TextCol(2, 3)>>] :
        code \in IntCodes, first \in IntFirstBytes, rest \in IntRestBytes}
    \cup {[shape |-> "reserved",
           cols |-> <<IntCol(1, <<5>>), IntCol(code, <<>>), TextCol(2, n)>>] :
            code \in {10, 11}, n \in 0..3}
    \cup {[shape |-> "negative",
           cols |-> <<IntCol(-1, <<>>), TextCol(2, n)>>] : n \in 0..3}
    \cup {[shape |-> "long",
           cols |-> <<[code |-> BigBlobCode, data |-> DataBytes(1, 20)]>>
                      \o [i \in 1..(LongBase + extra - 1) |->
                            [code |-> BigBlobCode, data |-> <<>>]]
                      \o (IF last = "int" THEN <<IntCol(1, <<>>)>> ELSE <<>>)] :
            extra \in 0..MaxExtraCols, last \in LastCols}
    \cup {[shape |-> "cut",
           cols |-> <<IntCol(1, <<5>>), col, [code |-> tail, data |-> <<>>]>>] :
            col \in CutCols, tail \in CutTails}
    \cup {[shape |-> "zeros", cols |-> [c \in 1..n |-> [code |-> code[c], data |-> <<>>]]] :
            n \in 1..2, code \in [1..2 -> ZeroCodes]}

\* The nine-byte varint of -1.
MinusOneVarint == [i \in 1..9 |-> 255]

\* The record of a row: the header size, the serial types, the columns.
RecordBytes(row) ==
    IF row.shape = "negative"
    THEN VarintEncode(Len(MinusOneVarint) + Len(VarintEncode(row.cols[2].code)) + 1)
            \o MinusOneVarint \o VarintEncode(row.cols[2].code)
            \o Concat([c \in 1..Len(row.cols) |-> row.cols[c].data])
    ELSE PayloadOf(row.cols)

\* An overflow page of 512 bytes that holds the columns of the row and is
\* the last of its chain, and the units that are pending when it is read.
OverflowBytes(row) ==
    LET content == Concat([c \in 1..Len(row.cols) |-> row.cols[c].data])
    IN  U32BE(0) \o content \o Fill(508 - Len(content), 0)

OverflowUnits(row) ==
    [c \in 1..Len(row.cols) |->
        [overflow_type |-> row.cols[c].code, bytes_left |-> Len(row.cols[c].data)]]

\* Pending units of every kind: a blob or a text of 700 bytes with all or
\* some of its bytes left, an integer or a float with all or some of its
\* bytes left, a column of size zero.
UnitPool ==
    {[overflow_type |-> code, bytes_left |-> left] :
        code \in {12 + 2 * 700, 13 + 2 * 700}, left \in {3, 508, 600}}
    \cup {[overflow_type |-> 4, bytes_left |-> left] : left \in {2, 4}}
    \cup {[overflow_type |-> 7, bytes_left |-> 8], [overflow_type |-> 0, bytes_left |-> 0]}

UnitLists ==
    {<<>>} \cup {<<u>> : u \in UnitPool} \cup {<<u, v>> : u, v \in UnitPool}
    \cup {<<u, v, [overflow_type |-> 12 + 2 * 700, bytes_left |-> 3]>> : u, v \in UnitPool}

\* An overflow page of 512 bytes full of ASCII bytes, with its next-page
\* pointer.
UnitPage(next_page) == U32BE(next_page) \o [j \in 1..508 |-> (j * 7) % 128]

InitRecord ==
    /\ mode = "record"
    /\ IdleViewer
    /\ \/ \E row \in RecordRows :
            /\ written = row
            /\ cell_buf = RecordBytes(row)
       \/ \E units \in UnitLists, next_page \in {0, 3} :
            /\ written = [shape |-> "units", units |-> units, next_page |-> next_page]
            /\ cell_buf = UnitPage(next_page)
    /\ cell = NoResult
    /\ IdleVarint
    /\ IdleReader
    /\ IdleTree

RecordTryFrom ==
    /\ mode = "record"
    /\ written.shape # "units"
    /\ cell = NoResult
    /\ cell' = [op |-> "Record::try_from", res |-> Record_try_from("UTF8", cell_buf)]
    /\ UNCHANGED <<mode, viewerVars, written, cell_buf, varintVars, readerVars, treeVars>>

OverflowPageTryFrom ==
    /\ mode = "record"
    /\ written.shape # "long"
    /\ cell = NoResult
    /\ cell' = [op |-> "OverflowPage::try_from",
                res |-> IF written.shape = "units"
                        THEN OverflowPage_try_from("UTF8", written.units, cell_buf)
                        ELSE OverflowPage_try_from("UTF8", OverflowUnits(written),
                                                   OverflowBytes(written))]
    /\ UNCHANGED <<mode, viewerVars, written, cell_buf, varintVars, readerVars, treeVars>>

NextRecord ==
    \/ RecordTryFrom
    \/ OverflowPageTryFrom

SpecRecord == InitRecord /\ [][NextRecord]_vars

\* The value a column of the decoded record or overflow page holds.
DecodedValue(n) ==
    IF cell.op = "Record::try_from" THEN cell.res.val.values[n].value
    ELSE cell.res.val.data[n].value.value

\* The twos-complement value of big-endian bytes, sign-extended: a number
\* for the widths up to 4 bytes, four 16-bit limbs for 6 and 8 bytes.
SignExtended(data) ==
    IF Len(data) <= 4 THEN SignedBE(data)
    ELSE I64FromBE(Fill(8 - Len(data), IF data[1] >= 128 THEN 255 ELSE 0) \o data)

\* C15: a column of serial type 1..6 decodes to the sign-extended
\* twos-complement big-endian integer of its 1, 2, 3, 4, 6 or 8 bytes,
\* whatever the bytes are, on a b-tree page and on an overflow page.
C15_SignedIntegers ==
    (mode = "record" /\ written.shape = "int" /\ cell # NoResult) =>
        /\ cell.res.ok
        /\ DecodedValue(1).v = SignExtended(written.cols[1].data)

\* C16: decoding a column whose serial type is negative, 10 or 11 gives an
\* error value (no record, no overflow page, no panic), on a b-tree page
\* and on an overflow page.
C16_ReservedSerialType ==
    (mode = "record" /\ written.shape \in {"reserved", "negative"} /\ cell # NoResult) =>
        (~cell.res.ok /\ ~cell.res.panic)

\* The bytes of the serial-type varints the header decoder read.
DatatypeBytes(datatypes) == Concat([i \in 1..Len(datatypes) |-> datatypes[i].bytes])

\* C20: the record header is the H bytes its size varint declares, the
\* varint included: the serial types are decoded from the bytes
\* [len(H), H) of the record, one per column, whatever the length of the
\* varint of H, and the first value is read from offset H on.
C20_HeaderExtent ==
    (/\ mode = "record"
     /\ written.shape \in {"int", "long"}
     /\ cell # NoResult
     /\ cell.op = "Record::try_from") =>
        /\ cell.res.ok
        /\ LET header == cell.res.val.header
               H == AsUsize(header.size.value)
           IN  /\ DatatypeBytes(header.datatypes)
                    = SubSeq(cell_buf, Len(header.size.bytes) + 1, H)
               /\ Len(header.datatypes) = Len(written.cols)
               /\ \A n \in 1..Len(written.cols) :
                     I64ToInt(header.datatypes[n].value) = written.cols[n].code
               /\ cell.res.val.values[1].bytes.v
                    = SubSeq(cell_buf, H + 1, H + Len(written.cols[1].data))

\* C21: when the record slice ends inside a column of non-zero size
\* (integer, float, blob or text) the decoder returns a record whose last
\* sized value holds exactly the bytes of the column the slice holds, and no
\* sized value after it; a record of size-zero columns only has one value
\* per column, none with bytes, and nothing after its header.
C21_TruncatedColumn ==
    (/\ mode = "record"
     /\ written.shape \in {"cut", "zeros"}
     /\ cell # NoResult
     /\ cell.op = "Record::try_from") =>
        /\ cell.res.ok
        /\ written.shape = "cut" =>
              /\ Len(cell.res.val.values)
                    = (IF RecordCode_size(written.cols[3].code) = 0 THEN 3 ELSE 2)
              /\ cell.res.val.values[2].bytes = Some(written.cols[2].data)
        /\ written.shape = "zeros" =>
              /\ Len(cell.res.val.values) = Len(written.cols)
              /\ \A n \in 1..Len(written.cols) : cell.res.val.values[n].bytes = None
              /\ Len(cell_buf) = AsUsize(cell.res.val.header.size.value)

\* The bytes left of the units before unit i.
UnitsBefore(units, i) == SumSeq([j \in 1..(i - 1) |-> units[j].bytes_left])

\* The units a page of `usable` content bytes takes a piece of, and the
\* length of the piece of unit i.
UnitsTaken(units, usable) ==
    Cardinality({i \in 1..Len(units) : UnitsBefore(units, i) < usable})

PieceLen(units, usable, i) ==
    IF units[i].bytes_left < usable - UnitsBefore(units, i)
    THEN units[i].bytes_left
    ELSE usable - UnitsBefore(units, i)

\* The value type of a serial type.
TypeOfCode(code) ==
    CASE code = 0 -> "Null"
      [] code = 4 -> "I32"
      [] code = 7 -> "F64"
      [] code >= 12 /\ code % 2 = 0 -> "Blob"
      [] code >= 13 /\ code % 2 = 1 -> "Text"

\* C22: the overflow-page decoder reads the next-page pointer from the
\* first four bytes and cuts the bytes after it in unit order, whatever the
\* serial types of the units: piece i is the next min(bytes_left, usable
\* bytes left) bytes, decoded as the type of its unit; a unit that is cut is
\* returned first, with the bytes it still misses, before the units not
\* reached; the pointer, the pieces and the unallocated bytes make up the
\* page.
C22_GreedyPieces ==
    (/\ mode = "record"
     /\ written.shape = "units"
     /\ cell # NoResult) =>
        /\ cell.res.ok
        /\ LET units == written.units
               page == cell.res.val
               taken == UnitsTaken(units, 508)
               cut == taken >= 1 /\ PieceLen(units, 508, taken) < units[taken].bytes_left
           IN  /\ page.next_page = written.next_page
               /\ Len(page.data) = taken
               /\ \A i \in 1..taken :
                     /\ page.data[i].bytes
                           = slc(cell_buf, 4 + UnitsBefore(units, i), PieceLen(units, 508, i))
                     /\ page.data[i].value.value.type = TypeOfCode(units[i].overflow_type)
                     /\ page.data[i].value.bytes
                           = (IF PieceLen(units, 508, i) = 0 THEN None
                              ELSE Some(page.data[i].bytes))
               /\ page.overflow_units
                     = (IF cut
                        THEN <<[units[taken] EXCEPT
                                  !.bytes_left = @ - PieceLen(units, 508, taken)]>>
                        ELSE <<>>) \o SubSeq(units, taken + 1, Len(units))
               /\ 4 + SumSeq([i \in 1..Len(page.data) |-> Len(page.data[i].bytes)])
                     + BytesLen(page.unallocated) = Len(cell_buf)

(***************************************************************************)
(* Behaviours exercising the overflow walks and the b-tree materializer:   *)
(* an image of 512-byte pages written by the database writer, then one of  *)
(* BTreeNode::follow_overflow and BTree::new on a cell, BTreeNode::new on  *)
(* a page, Reader::get_btrees. The layouts:                                *)
(*   "deep"  page 1 interior (left child 2, right-most child 3), schema    *)
(*           leaves 2 and 3 with one row each, table roots 4 and 5, the    *)
(*           overflow chain of the test row from page 6 on; the test row   *)
(*           is the schema row of page 2 or the one row of table 4;        *)
(*   "flat"  page 1 a leaf with up to two rows, table roots 2 and 3;       *)
(*   "wide"  page 1 interior (left children 2 and 3, right-most child 4),  *)
(*           schema leaves 2, 3, 4 with one row each, table roots 5, 6, 7. *)
(* The last page of the chain points to 0, back to the first page of the   *)
(* chain ("cycle") or beyond the image ("beyond"); a damaged page has its  *)
(* page type byte zeroed.                                                  *)
(***************************************************************************)
\* The varying column of the test row is base + 0..MaxSpread bytes long.
MaxSpread == 7
\* The largest page number get_btree_page is asked for.
MaxTreePage == 4

ColBases == {100, 525, 965}
ColLens == {b + d : b \in ColBases, d \in 0..MaxSpread}
TestShapes == {"sql", "name", "fives", "autoindex", "between"}
ChainEnds == {"end", "cycle", "beyond"}
Places == {"schema", "table"}
NodePages == {1, 4}

\* A row of the schema table: type, name, tbl_name, rootpage, sql.
SchemaRow(c, name_len, root, sql) ==
    <<TextCol(1, 5), TextCol(c, name_len), TextCol(c + 1, 4), IntCol(1, <<root>>), sql>>

SmallRow(c, root) == SchemaRow(c, 3, root, TextCol(c + 2, 6))

\* "sql": a long sql text; "name": a long name; "fives": a long name of
\* bytes 5 (a control character); "autoindex": a long name and a NULL sql; "between": the columns after the name fill whole overflow
\* pages, so the page boundary falls exactly between name and tbl_name.
TestRow(shape, n, u, root) ==
    CASE shape = "sql" -> SchemaRow(2, 4, root, TextCol(4, n))
      [] shape = "name" -> SchemaRow(2, n, root, TextCol(4, 20))
      [] shape = "fives" ->
            [SchemaRow(2, n, root, TextCol(4, 20)) EXCEPT ![2].data = Fill(n, 5)]
      [] shape = "autoindex" -> SchemaRow(2, n, root, NullCol)
      [] shape = "between" -> SchemaRow(2, n, root, TextCol(4, u - 9))

\* What get_btrees is to report of a schema row.
ExpectedOf(row) == [ttype |-> row[1].data, name |-> row[2].data, root |-> row[4].data[1]]

SmallCell(reserved, c, root, rowid) ==
    CellBytes(WriteCell("LeafTable", CellHeader(reserved), SmallRow(c, root), 0, rowid))

LeafPage(lead, cells, reserved) == WritePage(lead, 13, cells, 0, 512, reserved)

DeepImage(reserved, place, w, chain_end) ==
    LET content == SubSeq(w.payload, w.local + 1, Len(w.payload))
        count == ChainLen(Len(content), 512 - reserved)
        last_next == CASE chain_end = "end" -> 0
                       [] chain_end = "cycle" -> 6
                       [] chain_end = "beyond" -> 9 + count
    IN  Concat(<<
            WritePage(HeaderBytes(512, reserved, 7, 0, 1, 7), 5,
                      <<InteriorCell(2, 300)>>, 3, 512, reserved),
            LeafPage(<<>>,
                     <<IF place = "schema" THEN CellBytes(w)
                       ELSE SmallCell(reserved, 5, 4, 300)>>,
                     reserved),
            LeafPage(<<>>, <<SmallCell(reserved, 8, 5, 301)>>, reserved),
            LeafPage(<<>>, IF place = "table" THEN <<CellBytes(w)>> ELSE <<>>, reserved),
            LeafPage(<<>>, <<>>, reserved),
            WriteChain(content, 512, reserved, 6, last_next)>>)

FlatImage(reserved, rows) ==
    Concat(<<
        LeafPage(HeaderBytes(512, reserved, 7, 0, 1, 7),
                 [i \in 1..rows |-> SmallCell(reserved, 3 * i + 2, i + 1, 299 + i)],
                 reserved),
        LeafPage(<<>>, <<>>, reserved),
        LeafPage(<<>>, <<>>, reserved)>>)

WideImage(reserved) ==
    Concat(<<
        WritePage(HeaderBytes(512, reserved, 7, 0, 1, 7), 5,
                  <<InteriorCell(2, 300), InteriorCell(3, 301)>>, 4, 512, reserved),
        LeafPage(<<>>, <<SmallCell(reserved, 5, 5, 300)>>, reserved),
        LeafPage(<<>>, <<SmallCell(reserved, 8, 6, 301)>>, reserved),
        LeafPage(<<>>, <<SmallCell(reserved, 11, 7, 302)>>, reserved),
        LeafPage(<<>>, <<>>, reserved),
        LeafPage(<<>>, <<>>, reserved),
        LeafPage(<<>>, <<>>, reserved)>>)

\* The image with the page type byte of page `damaged` zeroed (0: no damage).
Damage(image, damaged) ==
    IF damaged = 0 THEN image ELSE [image EXCEPT ![(damaged - 1) * 512 + 1] = 0]

\* The image with the page type byte of page `page` set to `byte`.
Retype(image, page, byte) ==
    [image EXCEPT ![(page - 1) * 512 + (IF page = 1 THEN DB_HEADER_SIZE ELSE 0) + 1] = byte]

\* The image with the header's size in pages set to db_size (the change
\* counter and the version-valid-for number of HeaderBytes agree, so a
\* non-zero size is the number of pages of the database).
Declare(image, db_size) ==
    [i \in 1..Len(image) |-> IF i \in 29..32 THEN U32BE(db_size)[i - 28] ELSE image[i]]

\* Which page type byte is overwritten with what: page 1 of a schema table
\* without rows, or the root page 2 of the table of the one schema row.
Retypes ==
    {<<1, byte>> : byte \in {0, 2, 5, 10, 255}}
        \cup {<<2, byte>> : byte \in {1, 2, 5, 10, 255}}

\* Schema rows a well-formed database does not hold: "short" ends after
\* tbl_name, "textroot" has a text and "nullroot" a NULL for its root page.
OddShapes == {"short", "textroot", "nullroot"}

OddRow(shape) ==
    CASE shape = "short" -> <<TextCol(1, 5), TextCol(5, 3), TextCol(6, 4)>>
      [] shape = "textroot" ->
            <<TextCol(1, 5), TextCol(5, 3), TextCol(6, 4), TextCol(7, 1), TextCol(8, 6)>>
      [] shape = "nullroot" ->
            <<TextCol(1, 5), TextCol(5, 3), TextCol(6, 4), NullCol, TextCol(8, 6)>>

OddImage(reserved, shape) ==
    Concat(<<
        LeafPage(HeaderBytes(512, reserved, 7, 0, 1, 7),
                 <<CellBytes(WriteCell("LeafTable", CellHeader(reserved),
                                       OddRow(shape), 0, 300))>>,
                 reserved),
        LeafPage(<<>>, <<>>, reserved),
        LeafPage(<<>>, <<>>, reserved)>>)

\* A database with an index: the schema leaf on page 1 with the row of the
\* index, its root on page 2, a leaf index page with one small cell ("leaf")
\* or an interior index page with one small cell, left child 3 and
\* right-most child 3 ("interior"), and on page 3 a leaf index page without
\* cells.
IndexKinds == {"leaf", "interior"}

IndexCell(reserved, kind) ==
    IF kind = "leaf"
    THEN CellBytes(WriteCell("LeafIndex", CellHeader(reserved),
                             <<TextCol(3, 5), IntCol(1, <<9>>)>>, 0, 0))
    ELSE [CellBytes(WriteCell("InteriorIndex", CellHeader(reserved),
                              <<TextCol(3, 5), IntCol(1, <<9>>)>>, 0, 0))
            EXCEPT ![4] = 3]

IndexedImage(reserved, kind) ==
    Concat(<<
        LeafPage(HeaderBytes(512, reserved, 7, 0, 1, 7),
                 <<SmallCell(reserved, 5, 2, 300)>>, reserved),
        WritePage(<<>>, IF kind = "leaf" THEN 10 ELSE 2,
                  <<IndexCell(reserved, kind)>>, 3, 512, reserved),
        WritePage(<<>>, 10, <<>>, 0, 512, reserved)>>)

\* A schema table whose page 3 points back: through the left child of its
\* one cell ("left") or through its right-most pointer ("right"), to the
\* root page 1 or to page 3 itself.
LoopVias == {"left", "right"}
LoopTargets == {1, 3}

LoopedImage(reserved, via, target) ==
    Concat(<<
        WritePage(HeaderBytes(512, reserved, 7, 0, 1, 7), 5,
                  <<InteriorCell(2, 300)>>, 3, 512, reserved),
        LeafPage(<<>>, <<SmallCell(reserved, 5, 4, 300)>>, reserved),
        WritePage(<<>>, 5,
                  IF via = "left" THEN <<InteriorCell(target, 301)>> ELSE <<>>,
                  IF via = "left" THEN 4 ELSE target, 512, reserved),
        LeafPage(<<>>, <<>>, reserved)>>)

NoTreeResult ==
    /\ call = NoResult
    /\ ret = NoResult
    /\ walk = NoResult
    /\ stitched = NoResult
    /\ tree = NoResult
    /\ node = NoResult
    /\ forest = NoResult

InitDeep ==
    \E reserved \in ReservedSizes, place \in Places, shape \in TestShapes,
       n \in ColLens, chain_end \in ChainEnds :
        LET w == WriteCell("LeafTable", CellHeader(reserved),
                           TestRow(shape, n, 512 - reserved, 4), 6, 300)
            image == DeepImage(reserved, place, w, chain_end)
            page_num == IF place = "schema" THEN 2 ELSE 4
            ptr == 512 - reserved - Len(CellBytes(w))
        IN  /\ (w.local = Len(w.payload)) => chain_end = "end"
            /\ written = [w EXCEPT !.bytes = <<>>] @@
                         [db_header |-> CellHeader(reserved), layout |-> "deep",
                          place |-> place, chain_end |-> chain_end, damaged |-> 0,
                          expected |->
                            <<IF place = "schema" THEN ExpectedOf(w.cols)
                              ELSE ExpectedOf(SmallRow(5, 4)),
                              ExpectedOf(SmallRow(8, 5))>>]
            /\ reader = Reader_new(image).val
            /\ cell_buf = SubSeq(image, (page_num - 1) * 512 + ptr + 1, page_num * 512)
            /\ cell = Cell_new("LeafTable", CellHeader(reserved),
                               SubSeq(image, (page_num - 1) * 512 + ptr + 1,
                                      page_num * 512))

InitFlat ==
    \E reserved \in ReservedSizes, rows \in 0..2, damaged \in {0, 2} :
        /\ written = [db_header |-> CellHeader(reserved), layout |-> "flat", place |-> "none", chain_end |-> "end",
                      damaged |-> damaged,
                      expected |-> [i \in 1..rows |-> ExpectedOf(SmallRow(3 * i + 2, i + 1))]]
        /\ reader = Reader_new(Damage(FlatImage(reserved, rows), damaged)).val
        /\ cell_buf = <<>>
        /\ cell = NoResult

InitWide ==
    \E reserved \in ReservedSizes, damaged \in {0, 3, 6} :
        /\ written = [db_header |-> CellHeader(reserved), layout |-> "wide", place |-> "none", chain_end |-> "end",
                      damaged |-> damaged,
                      expected |-> <<ExpectedOf(SmallRow(5, 5)), ExpectedOf(SmallRow(8, 6)),
                                     ExpectedOf(SmallRow(11, 7))>>]
        /\ reader = Reader_new(Damage(WideImage(reserved), damaged)).val
        /\ cell_buf = <<>>
        /\ cell = NoResult

\* The flat layout with a page type byte overwritten.
InitTyped ==
    \E reserved \in ReservedSizes, retype \in Retypes :
        LET rows == IF retype[1] = 1 THEN 0 ELSE 1
        IN  /\ written = [db_header |-> CellHeader(reserved), layout |-> "typed",
                          place |-> "none", chain_end |-> "end", damaged |-> retype[1],
                          expected |->
                            [i \in 1..rows |-> ExpectedOf(SmallRow(3 * i + 2, i + 1))]]
            /\ reader = Reader_new(Retype(FlatImage(reserved, rows),
                                          retype[1], retype[2])).val
            /\ cell_buf = <<>>
            /\ cell = NoResult

\* The flat layout of two rows (table roots 2 and 3) in an image of three
\* pages whose header declares two, three or four pages.
InitDeclared ==
    \E reserved \in ReservedSizes, db_size \in 2..4 :
        /\ written = [db_header |-> CellHeader(reserved), layout |-> "declared",
                      place |-> "none", chain_end |-> "end", damaged |-> 0,
                      expected |->
                        [i \in 1..2 |-> ExpectedOf(SmallRow(3 * i + 2, i + 1))]]
        /\ reader = Reader_new(Declare(FlatImage(reserved, 2), db_size)).val
        /\ cell_buf = <<>>
        /\ cell = NoResult

\* A schema table of one odd row.
InitOdd ==
    \E reserved \in ReservedSizes, shape \in OddShapes :
        /\ written = [db_header |-> CellHeader(reserved), layout |-> "odd",
                      place |-> "none", chain_end |-> "end", damaged |-> 0,
                      expected |-> <<>>, odd |-> shape]
        /\ reader = Reader_new(OddImage(reserved, shape)).val
        /\ cell_buf = <<>>
        /\ cell = NoResult

\* A database with an index.
InitIndexed ==
    \E reserved \in ReservedSizes, kind \in IndexKinds :
        /\ written = [db_header |-> CellHeader(reserved), layout |-> "indexed",
                      place |-> "none", chain_end |-> "end", damaged |-> 0,
                      expected |-> <<ExpectedOf(SmallRow(5, 2))>>]
        /\ reader = Reader_new(IndexedImage(reserved, kind)).val
        /\ cell_buf = <<>>
        /\ cell = NoResult

\* A schema table with a child pointer that leads back to a page above.
InitLooped ==
    \E reserved \in ReservedSizes, via \in LoopVias, target \in LoopTargets :
        /\ written = [db_header |-> CellHeader(reserved), layout |-> "looped",
                      place |-> "none", chain_end |-> "end", damaged |-> 3,
                      expected |-> <<ExpectedOf(SmallRow(5, 4))>>]
        /\ reader = Reader_new(LoopedImage(reserved, via, target)).val
        /\ cell_buf = <<>>
        /\ cell = NoResult

InitTree ==
    /\ mode = "tree"
    /\ IdleViewer
    /\ \/ InitDeep
       \/ InitFlat
       \/ InitWide
       \/ InitTyped
       \/ InitDeclared
       \/ InitOdd
       \/ InitIndexed
       \/ InitLooped
    /\ call = NoResult
    /\ ret = NoResult
    /\ NoTreeResult
    /\ IdleVarint

\* BTreeNode::follow_overflow on the chain of the test cell, as the
\* extend_overflow closure calls it.
NodeFollowOverflow ==
    /\ mode = "tree"
    /\ NoTreeResult
    /\ cell # NoResult
    /\ cell.ok
    /\ cell.val.overflow.some
    /\ walk' = BTreeNode_follow_overflow(<<>>, cell.val.overflow.v.units,
                                         cell.val.overflow.v.page, reader, <<>>)
    /\ UNCHANGED <<mode, viewerVars, stitched, tree, node, forest, varintVars, readerVars, cellVars>>

\* BTree::new on the test cell, a row of the schema table.
BTreeNew ==
    /\ mode = "tree"
    /\ NoTreeResult
    /\ cell # NoResult
    /\ cell.ok
    /\ written.place = "schema"
    /\ stitched' = BTree_payload(cell.val, reader)
    /\ tree' = BTree_new(cell.val, reader)
    /\ UNCHANGED <<mode, viewerVars, walk, node, forest, varintVars, readerVars, cellVars>>

BTreeNodeNew ==
    /\ mode = "tree"
    /\ NoTreeResult
    /\ \E page_num \in NodePages :
        node' = [page_num |-> page_num, res |-> BTreeNode_new(page_num, reader, {})]
    /\ UNCHANGED <<mode, viewerVars, walk, stitched, tree, forest, varintVars, readerVars, cellVars>>

GetBtrees ==
    /\ mode = "tree"
    /\ NoTreeResult
    /\ forest' = Reader_get_btrees(reader)
    /\ UNCHANGED <<mode, viewerVars, walk, stitched, tree, node, varintVars, readerVars, cellVars>>

\* Reader::get_btree_page on one of the first pages of the image (or on
\* page 0, or past the end of a short image).
TreeGetBtreePage ==
    /\ mode = "tree"
    /\ NoTreeResult
    /\ \E page_num \in 0..MaxTreePage :
        /\ call' = [op |-> "get_btree_page", page_num |-> page_num]
        /\ ret' = Reader_get_btree_page(reader, page_num)
    /\ UNCHANGED <<mode, viewerVars, reader, treeVars, varintVars, cellVars>>

NextTree ==
    \/ TreeGetBtreePage
    \/ NodeFollowOverflow
    \/ BTreeNew
    \/ BTreeNodeNew
    \/ GetBtrees

SpecTree == InitTree /\ [][NextTree]_vars

(***************************************************************************)
(* Properties of the overflow walks and of the b-tree materializer.        *)
(***************************************************************************)
\* A well-formed image: the chain ends with next page 0 and no page is
\* damaged.
WellFormedImage == written.chain_end = "end" /\ written.damaged = 0

\* The bytes of the pieces a walk emitted, page after page.
PieceBytes(opages) ==
    Concat([i \in 1..Len(opages) |->
        Concat([j \in 1..Len(opages[i].data) |-> opages[i].data[j].bytes])])

\* The values of the row as a record that does not spill holds them.
WholeValues ==
    [i \in 1..Len(written.cols) |->
        RecordValue_new(written.cols[i].code, written.db_header.text_encoding,
                        written.cols[i].data).val]

\* Every cell with an overflow chain on the page of the node, and of the
\* nodes below it, has its chain in the node's overflow list.
RECURSIVE NodeWhole(_)
NodeWhole(n) ==
    /\ \A i \in 1..Len(n.page.cells) :
          (n.page.cells[i].cell # "TableInterior" /\ n.page.cells[i].overflow.some) =>
            /\ n.overflow.some
            /\ \E k \in 1..Len(n.overflow.v) :
                  n.overflow.v[k].page_num = n.page.cells[i].overflow.v.page
    /\ n.children.some => \A k \in 1..Len(n.children.v) : NodeWhole(n.children.v[k])

\* C1: a forest get_btrees returns starts with the tree "table" / "master
\* schema" rooted at page 1, followed by one tree per row of the schema
\* table in depth-first order (left children in cell order, then the
\* right-most child), each with the type, name and root page of its row.
C1_ForestOfSchemaRows ==
    (forest # NoResult /\ forest.ok) =>
        /\ Len(forest.val) = 1 + Len(written.expected)
        /\ forest.val[1].ttype = "table"
        /\ forest.val[1].name = "master schema"
        /\ forest.val[1].root.page_num = 1
        /\ \A i \in 1..Len(written.expected) :
              /\ forest.val[i + 1].ttype = written.expected[i].ttype
              /\ forest.val[i + 1].name = written.expected[i].name
              /\ forest.val[i + 1].root.page_num = written.expected[i].root

\* C2: decoding is all-or-nothing: a node BTreeNode::new returns and the
\* nodes of a forest get_btrees returns hold the overflow chain of every
\* cell that spills, and the forest holds a tree for every schema row; when a
\* page of a chain or of a tree cannot be decoded the call fails instead.
C2_AllOrNothing ==
    /\ (node # NoResult /\ node.res.ok) => NodeWhole(node.res.val)
    /\ (forest # NoResult /\ forest.ok) =>
          /\ Len(forest.val) = 1 + Len(written.expected)
          /\ \A i \in 1..Len(forest.val) : NodeWhole(forest.val[i].root)

\* C7: in a well-formed image the walk of a cell's overflow chain succeeds,
\* the bytes of its pieces are the payload bytes the page does not hold, in
\* order (so their lengths sum to declared minus on-page size), and no unit
\* is pending after the last page.
C7_WalkEmitsOverflow ==
    (walk # NoResult /\ WellFormedImage) =>
        /\ walk.res.ok
        /\ Len(PieceBytes(walk.res.val)) = Len(written.payload) - written.local
        /\ PieceBytes(walk.res.val)
              = SubSeq(written.payload, written.local + 1, Len(written.payload))
        /\ walk.res.val[Len(walk.res.val)].overflow_units = <<>>

\* C8: for a schema row that spills in a well-formed image BTree::new
\* stitches the on-page values and the values of the chain into the values
\* of the record as if it did not spill: one value per column, in column
\* order, each with all of its bytes, wherever the page boundary falls.
C8_StitchedRecord ==
    (stitched # NoResult /\ WellFormedImage /\ cell.val.overflow.some) =>
        /\ stitched.res.ok
        /\ stitched.res.val = WholeValues

\* C9: a walk of an overflow chain returns on every image, having visited at
\* most pages_total() pages, and on a chain that leads back into itself it
\* returns the error "cycle detected".
C9_WalksTerminate ==
    /\ walk # NoResult =>
          /\ walk.res # Diverges
          /\ Len(walk.visited) <= Reader_pages_total(reader)
          /\ written.chain_end = "cycle" => walk.res = Err("cycle detected")
    /\ stitched # NoResult =>
          /\ stitched.res # Diverges
          /\ Len(stitched.visited) <= Reader_pages_total(reader)
          /\ written.chain_end = "cycle" => stitched.res = Err("cycle detected")


\* The page type byte of page n of the image: the first byte of the page
\* header, which follows the database header on page 1.
TypeByteOf(n) ==
    reader.bytes[(n - 1) * reader.db_header.page_size
                   + (IF n = 1 THEN DB_HEADER_SIZE ELSE 0) + 1]

\* C14: the page type of a page get_btree_page returns is the one its type
\* byte names (2 InteriorIndex, 5 InteriorTable, 10 LeafIndex, 13
\* LeafTable), the byte being the first of the page header (after the
\* database header on page 1); for every other type byte get_btree_page
\* returns an error and no Page.
C14_PageType ==
    (/\ mode = "tree"
     /\ call # NoResult
     /\ call.op = "get_btree_page"
     /\ call.page_num >= 1
     /\ call.page_num * reader.db_header.page_size <= Len(reader.bytes)
     /\ call.page_num <= Reader_pages_total(reader)) =>
        LET byte == TypeByteOf(call.page_num)
        IN  /\ byte \notin {2, 5, 10, 13} => (~ret.ok /\ ~ret.panic)
            /\ ret.ok =>
                  ret.val.page_header.page_type =
                      (CASE byte = 2 -> "InteriorIndex"
                         [] byte = 5 -> "InteriorTable"
                         [] byte = 10 -> "LeafIndex"
                         [] byte = 13 -> "LeafTable")

\* Reached: page 2 with type byte 10 was decoded as a LeafIndex page.
C14_Witness ==
    /\ mode = "tree"
    /\ call # NoResult
    /\ call.op = "get_btree_page"
    /\ call.page_num = 2
    /\ TypeByteOf(2) = 10
    /\ ret.ok
    /\ ret.val.page_header.page_type = "LeafIndex"

\* C17: when a schema row has fewer columns than {type, name, table_name,
\* root_page, sql}, or its root-page column is not an integer, get_btrees
\* returns an error value: no forest and no panic.
C17_SchemaMismatch ==
    (mode = "tree" /\ written.layout = "odd" /\ forest # NoResult) =>
        (~forest.ok /\ ~forest.panic)

\* C19: every tree of a forest get_btrees returns has a root page number
\* in 1..pages_total(), and its root node holds that number and the page
\* get_btree_page decodes at it.
C19_RootsInBounds ==
    (mode = "tree" /\ forest # NoResult /\ forest.ok) =>
        \A i \in 1..Len(forest.val) :
            LET root == forest.val[i].root
            IN  /\ root.page_num \in 1..Reader_pages_total(reader)
                /\ Reader_get_btree_page(reader, root.page_num) = Ok(root.page)
                /\ root.page.id = root.page_num

\* Reached: a forest of an image whose header declares exactly the three
\* pages the trees need, the last tree rooted at the last page.
C19_Witness ==
    /\ mode = "tree"
    /\ written.layout = "declared"
    /\ reader.db_header.db_size = 3
    /\ forest # NoResult
    /\ forest.ok
    /\ Len(forest.val) = 3
    /\ forest.val[3].root.page_num = 3

\* The children of node n and of the nodes below it are those its page
\* calls for: none for a leaf; for an interior page of K cells, K + 1 nodes,
\* the i-th built from the left child of cell i and the last from the
\* right-most pointer, each holding the number and the page of its pointer.
RECURSIVE NodeChildren(_)
NodeChildren(n) ==
    LET K == Len(n.page.cells)
    IN  /\ ~PageHeaderType_is_interior(n.page.page_header.page_type) =>
              n.children = None
        /\ PageHeaderType_is_interior(n.page.page_header.page_type) =>
              /\ n.children.some
              /\ Len(n.children.v) = K + 1
              /\ \A i \in 1..K :
                    n.children.v[i].page_num = n.page.cells[i].left_page_number
              /\ n.children.v[K + 1].page_num = n.page.page_header.page_num.v
              /\ \A i \in 1..(K + 1) :
                    /\ Reader_get_btree_page(reader, n.children.v[i].page_num)
                          = Ok(n.children.v[i].page)
                    /\ NodeChildren(n.children.v[i])

\* C23: a node BTreeNode::new returns, and every node of a forest, has no
\* children when its page is a leaf and, when its page is interior with K
\* cells, exactly K + 1 children: child i is built from the left-child
\* pointer of cell i, the last one from the right-most pointer of the page
\* header, and each child's page_num is the pointer it was built from.
C23_ChildrenPerPointer ==
    /\ (mode = "tree" /\ node # NoResult /\ node.res.ok) => NodeChildren(node.res.val)
    /\ (mode = "tree" /\ forest # NoResult /\ forest.ok) =>
          \A i \in 1..Len(forest.val) : NodeChildren(forest.val[i].root)

\* Reached: the node of page 1 of the wide layout, with the children 2, 3
\* (left children of its two cells) and 4 (right-most pointer), all leaves.
C23_Witness ==
    /\ mode = "tree"
    /\ written.layout = "wide"
    /\ node # NoResult
    /\ node.res.ok
    /\ node.page_num = 1
    /\ Len(node.res.val.page.cells) = 2
    /\ Len(node.res.val.children.v) = 3
    /\ node.res.val.children.v[1].page_num = 2
    /\ node.res.val.children.v[2].page_num = 3
    /\ node.res.val.children.v[3].page_num = 4
    /\ node.res.val.children.v[3].children = None

\* The overflow list of a node, empty when it has none.
OverflowList(n) == IF n.overflow.some THEN n.overflow.v ELSE <<>>

\* Where the chains begin in an overflow list: at its first node and after
\* every node whose page has no next page.
ChainStarts(list) == {k \in 1..Len(list) : k = 1 \/ list[k - 1].page.next_page = 0}

IsSpilled(c) == c.cell # "TableInterior" /\ c.overflow.some

\* The overflow list of node n, and of the nodes below it, is made of one
\* chain per spilled cell of its page, in cell order.
RECURSIVE NodeOverflow(_)
NodeOverflow(n) ==
    LET list == OverflowList(n)
        spilled == SelectSeq(n.page.cells, IsSpilled)
    IN  /\ Cardinality(ChainStarts(list)) = Len(spilled)
        /\ \A k \in 1..Len(list) :
              /\ k \in ChainStarts(list) =>
                    list[k].page_num
                        = spilled[Cardinality({j \in ChainStarts(list) : j <= k})]
                            .overflow.v.page
              /\ k \notin ChainStarts(list) =>
                    list[k].page_num = list[k - 1].page.next_page
              /\ list[k].page.next_page
                    = from_be_bytes(slc(reader.bytes,
                                        (list[k].page_num - 1) * reader.db_header.page_size,
                                        4))
        /\ list # <<>> => list[Len(list)].page.next_page = 0
        /\ n.children.some =>
              \A i \in 1..Len(n.children.v) : NodeOverflow(n.children.v[i])

\* C24: the overflow list of a node BTreeNode::new returns, and of every
\* node of a forest, is the chains of the spilled cells of its page one
\* after the other, in cell order: a chain begins with the node of the
\* cell's first overflow page, goes on with the node of the page the
\* preceding one points to and ends with a page whose next page is 0; every
\* node is labelled with the number of the page it was read from.
C24_OverflowList ==
    /\ (mode = "tree" /\ node # NoResult /\ node.res.ok) => NodeOverflow(node.res.val)
    /\ (mode = "tree" /\ forest # NoResult /\ forest.ok) =>
          \A i \in 1..Len(forest.val) : NodeOverflow(forest.val[i].root)

\* The bytes of page n of the image.
PageBytesOf(n) ==
    slc(reader.bytes, (n - 1) * reader.db_header.page_size, reader.db_header.page_size)

\* get_btree_page was asked for a b-tree page of a well-formed image.
BtreePageAsked ==
    /\ mode = "tree"
    /\ call # NoResult
    /\ call.op = "get_btree_page"
    /\ WellFormedImage
    /\ call.page_num >= 1
    /\ call.page_num <= Reader_pages_total(reader)
    /\ call.page_num * reader.db_header.page_size <= Len(reader.bytes)
    /\ TypeByteOf(call.page_num) \in {2, 5, 10, 13}

VariantOf(page_type) ==
    CASE page_type = "LeafTable" -> "TableLeaf"
      [] page_type = "InteriorTable" -> "TableInterior"
      [] page_type = "LeafIndex" -> "IndexLeaf"
      [] page_type = "InteriorIndex" -> "IndexInterior"

\* C25: get_btree_page returns the b-tree pages of the four types with one
\* cell per cell pointer, in pointer order: cell i is the cell decoded from
\* the page bytes at pointer i, of the variant of the page type (LeafTable:
\* TableLeaf, InteriorTable: TableInterior, LeafIndex: IndexLeaf,
\* InteriorIndex: IndexInterior).
C25_CellPerPointer ==
    BtreePageAsked =>
        /\ ret.ok
        /\ LET page == ret.val
               array == page.cell_pointer.array
           IN  /\ Len(array) = page.page_header.cell_num
               /\ Len(page.cells) = Len(array)
               /\ \A i \in 1..Len(array) :
                     /\ page.cells[i].cell = VariantOf(page.page_header.page_type)
                     /\ Ok(page.cells[i])
                           = Cell_new(page.page_header.page_type, reader.db_header,
                                      SubSeq(PageBytesOf(call.page_num), array[i] + 1,
                                             reader.db_header.page_size))

\* The bytes a decoded cell takes on its page.
CellSize(c) ==
    IF c.cell = "TableInterior" THEN 4 + Len(c.rowid_varint.bytes)
    ELSE Len(c.payload_varint.bytes) + c.payload_size
            + (IF c.overflow.some THEN 4 ELSE 0)
            + (IF c.cell = "TableLeaf" THEN Len(c.rowid_varint.bytes) ELSE 0)
            + (IF c.cell = "IndexInterior" THEN 4 ELSE 0)

\* The bytes of the parts of a decoded page: page header, cell pointer
\* array, unallocated region, cells.
PartsSize(page) ==
    page.page_header.size + CELL_PTR_SIZE * page.page_header.cell_num
        + Len(page.unallocated)
        + SumSeq([i \in 1..Len(page.cells) |-> CellSize(page.cells[i])])

\* C26: the parts of every b-tree page of a well-formed image tile the
\* page: the page header (12 bytes on an interior page, 8 on a leaf), two
\* bytes per cell, the unallocated region (the bytes from the end of the
\* cell pointer array up to the start of the cell content) and the cells
\* add up to the page size, less the 100 bytes of the database header on
\* page 1.
C26_Tiling ==
    BtreePageAsked =>
        /\ ret.ok
        /\ LET page == ret.val
               lead == IF call.page_num = 1 THEN DB_HEADER_SIZE ELSE 0
               after_array == lead + page.page_header.size
                                + CELL_PTR_SIZE * page.page_header.cell_num
           IN  /\ page.page_header.size
                     = (IF PageHeaderType_is_interior(page.page_header.page_type)
                        THEN 12 ELSE 8)
               /\ page.unallocated
                     = SubSeq(PageBytesOf(call.page_num), after_array + 1,
                              page.page_header.cell_start_offset)
               /\ PartsSize(page) = reader.db_header.page_size - lead

\* C27: BTreeNode::new and get_btrees (through collect_cells and
\* BTreeNode::new) return on every image, also when a left-child or
\* right-most pointer leads back to the page itself or to a page above it.
C27_TreeWalksTerminate ==
    /\ (mode = "tree" /\ node # NoResult) => node.res # Diverges
    /\ (mode = "tree" /\ forest # NoResult) => forest # Diverges

(***************************************************************************)
(* freelist.rs of the parser: the freelist page decoders, and their        *)
(* accessors of the Reader.                                                *)
(***************************************************************************)
TrunkFreelistPage_of(b, leaf_page_amount) ==
    IF 8 + 4 * leaf_page_amount > Len(b)
    THEN Panic("range end index out of range")
    ELSE Ok([next_page |-> from_be_bytes(slc(b, 0, 4)),
             leaf_page_amount |-> leaf_page_amount,
             leaf_page_numbers |->
                IF leaf_page_amount > 0
                THEN Some([i \in 1..leaf_page_amount |->
                              from_be_bytes(slc(b, 4 + 4 * i, 4))])
                ELSE None,
             unallocated |->
                IF 8 + 4 * leaf_page_amount < Len(b) - 1
                THEN Some(SubSeq(b, 8 + 4 * leaf_page_amount + 1, Len(b)))
                ELSE None])

TrunkFreelistPage_try_from(b) ==
    IF Len(b) < 8 THEN Panic("range end index out of range")
    ELSE TrunkFreelistPage_of(b, from_be_bytes(slc(b, 4, 4)))

LeafFreelistPage_try_from(b) == Ok([unallocated |-> b])

\* get_trunk_freelist_page once the page is sliced.
Reader_trunk_freelist_page_of(s) ==
    IF ~s.ok THEN s ELSE TrunkFreelistPage_try_from(s.val)

Reader_get_trunk_freelist_page(r, page_num) ==
    Reader_trunk_freelist_page_of(Reader_page_slice(r, page_num))

\* get_leaf_freelist_page once the page is sliced.
Reader_leaf_freelist_page_of(s) ==
    IF ~s.ok THEN s ELSE LeafFreelistPage_try_from(s.val)

Reader_get_leaf_freelist_page(r, page_num) ==
    Reader_leaf_freelist_page_of(Reader_page_slice(r, page_num))

(***************************************************************************)
(* ui: the parts of a page view. A Field is kept as the variant of its     *)
(* Value and, for a PageNumber, the number; descriptions, offsets, sizes   *)
(* and styles are left out, no handler reads them.                         *)
(***************************************************************************)
Field_new(value, v) == [value |-> value, v |-> v]

Field_try_page_number(field) ==
    IF field.value = "PageNumber" /\ field.v # 0 THEN Ok(field.v)
    ELSE Err("Page number cannot be made from this Value.")

Part_new(label, fields) == [label |-> label, fields |-> fields]

\* header.rs of the ui: one field per field of the database header.
DBHeaderPart_new ==
    Part_new("Database Header",
             [i \in 1..Len(<<"Text", "PageSize", "U8", "U8", "U8", "U8", "U8", "U8",
                             "U32", "U32", "U32", "U32", "U32", "U32", "U32", "U32",
                             "Encoding", "U32", "Bool", "U32", "Array", "U32",
                             "Version">>) |->
                 Field_new(<<"Text", "PageSize", "U8", "U8", "U8", "U8", "U8", "U8",
                             "U32", "U32", "U32", "U32", "U32", "U32", "U32", "U32",
                             "Encoding", "U32", "Bool", "U32", "Array", "U32",
                             "Version">>[i], 0)])

PageHeaderPart_new(page) ==
    Part_new("Page Header",
             <<Field_new("PageType", 0), Field_new("U16", 0),
               Field_new("CellStartOffset", 0), Field_new("U8", 0)>>
             \o (IF page.page_header.page_num.some
                 THEN <<Field_new("PageNumber", page.page_header.page_num.v)>>
                 ELSE <<>>))

\* One field per cell pointer: none for a page without cells.
CellPointerPart_new(page) ==
    Part_new("Cell pointer array",
             [i \in 1..Len(page.cell_pointer.array) |-> Field_new("CellStartOffset", 0)])

UnallocatedPart_new(page) ==
    Part_new("Unallocated space", <<Field_new("Unallocated", 0)>>)

CellPart_payload_fields(payload) ==
    <<Field_new("Varint", 0)>>
        \o [i \in 1..Len(payload.header.datatypes) |-> Field_new("Varint", 0)]
        \o [i \in 1..Len(payload.values) |-> Field_new("Record", 0)]

CellPart_overflow_fields(overflow) ==
    IF overflow.some THEN <<Field_new("PageNumber", overflow.v.page)>> ELSE <<>>

CellPart_new(c) ==
    Part_new("Cell",
        CASE c.cell = "TableLeaf" ->
                <<Field_new("Varint", 0), Field_new("Varint", 0)>>
                    \o CellPart_payload_fields(c.payload)
                    \o CellPart_overflow_fields(c.overflow)
          [] c.cell = "TableInterior" ->
                <<Field_new("PageNumber", c.left_page_number), Field_new("Varint", 0)>>
          [] c.cell = "IndexLeaf" ->
                <<Field_new("Varint", 0)>>
                    \o CellPart_payload_fields(c.payload)
                    \o CellPart_overflow_fields(c.overflow)
          [] c.cell = "IndexInterior" ->
                <<Field_new("PageNumber", c.left_page_number), Field_new("Varint", 0)>>
                    \o CellPart_payload_fields(c.payload)
                    \o CellPart_overflow_fields(c.overflow))

PageElementBuilder_build_btree_parts(id, page) ==
    (IF id = 1 THEN <<DBHeaderPart_new>> ELSE <<>>)
        \o <<PageHeaderPart_new(page), CellPointerPart_new(page), UnallocatedPart_new(page)>>
        \o [n \in 1..Len(page.cells) |-> CellPart_new(page.cells[Len(page.cells) + 1 - n])]

PageElementBuilder_build_overflow_parts(page) ==
    <<Part_new("Next page", <<Field_new("PageNumber", page.next_page)>>),
      Part_new("Data", [i \in 1..Len(page.data) |-> Field_new("Record", 0)])>>
        \o (IF page.unallocated.some
            THEN <<Part_new("Unallocated", <<Field_new("Unallocated", 0)>>)>>
            ELSE <<>>)

PageElementBuilder_build_trunk_freelist_parts(page) ==
    <<Part_new("Next page", <<Field_new("PageNumber", page.next_page)>>),
      Part_new("Leaf page amount", <<Field_new("U32", 0)>>)>>
        \o (IF page.leaf_page_numbers.some
            THEN <<Part_new("Leaf page numbers",
                            [i \in 1..Len(page.leaf_page_numbers.v) |->
                                Field_new("PageNumber", page.leaf_page_numbers.v[i])])>>
            ELSE <<>>)
        \o (IF page.unallocated.some
            THEN <<Part_new("Unallocated", <<Field_new("Unallocated", 0)>>)>>
            ELSE <<>>)

PageElementBuilder_build_leaf_freelist_parts(page) ==
    <<Part_new("Unallocated", <<Field_new("Unallocated", 0)>>)>>

\* PageElementBuilder::new(layout(page), size, page_num).build(): the view
\* keeps the page number it was built for as its id.
PageElementBuilder_build(layout, page, size, page_num) ==
    [id |-> page_num,
     size |-> size,
     layout |-> layout,
     parts |->
        CASE layout = "Btree" -> PageElementBuilder_build_btree_parts(page_num, page)
          [] layout = "Overflow" -> PageElementBuilder_build_overflow_parts(page)
          [] layout = "TrunkFreelist" -> PageElementBuilder_build_trunk_freelist_parts(page)
          [] layout = "LeafFreelist" -> PageElementBuilder_build_leaf_freelist_parts(page)]

(***************************************************************************)
(* viewer.rs: Viewer. pages_map is a function from page numbers to views;  *)
(* the loaders return [res, pages]: the Result and the map as they leave   *)
(* it.                                                                     *)
(***************************************************************************)
\* BTreeMap::insert.
MapInsert(map, key, view) ==
    [k \in (DOMAIN map) \cup {key} |-> IF k = key THEN view ELSE map[k]]

\* BTreeMap::into_values().collect(): the values in the order of their keys.
MapIntoValues(map) ==
    [i \in 1..Cardinality(DOMAIN map) |->
        map[CHOOSE k \in DOMAIN map : Cardinality({j \in DOMAIN map : j <= k}) = i]]

\* Viewer::load_overflow_page; `visited` is this model's record of the
\* pages the recursion has been through with no unit pending.
RECURSIVE Viewer_load_overflow_page(_, _, _, _, _)

\* load_overflow_page once the next page is decoded.
Viewer_load_overflow_next(page, pages, rd, visited, next_page) ==
    IF ~next_page.ok THEN [res |-> next_page, pages |-> pages]
    ELSE IF page.overflow_units = <<>> /\ page.next_page \in visited
    THEN [res |-> Diverges, pages |-> pages]
    ELSE Viewer_load_overflow_page(next_page.val, page.next_page, pages, rd, visited)

Viewer_load_overflow_page(page, page_num, pages, rd, visited) ==
    IF page.next_page = 0
    THEN [res |-> Ok(<<>>),
          pages |-> MapInsert(pages, page_num,
                        PageElementBuilder_build("Overflow", page, rd.db_header.page_size,
                                                 page_num))]
    ELSE Viewer_load_overflow_next(
            page,
            MapInsert(pages, page_num,
                      PageElementBuilder_build("Overflow", page, rd.db_header.page_size,
                                               page_num)),
            rd, visited \cup {page_num},
            Reader_get_overflow_page(rd, page.overflow_units, page.next_page))

\* The `for lpn in leaf_page_numbers` loop of load_freelist_pages, from the
\* i-th number.
RECURSIVE Viewer_load_freelist_leaves(_, _, _, _)

\* The loop once the leaf page is read.
Viewer_load_freelist_leaf(numbers, i, pages, rd, leaf) ==
    IF ~leaf.ok THEN [res |-> leaf, pages |-> pages]
    ELSE Viewer_load_freelist_leaves(
            numbers, i + 1,
            MapInsert(pages, numbers[i],
                      PageElementBuilder_build("LeafFreelist", leaf.val,
                                               rd.db_header.page_size, numbers[i])),
            rd)

Viewer_load_freelist_leaves(numbers, i, pages, rd) ==
    IF i > Len(numbers) THEN [res |-> Ok(<<>>), pages |-> pages]
    ELSE Viewer_load_freelist_leaf(numbers, i, pages, rd,
                                   Reader_get_leaf_freelist_page(rd, numbers[i]))

\* Viewer::load_freelist_pages; a trunk page decodes the same way every
\* time, so a next pointer to a trunk page already visited is followed
\* forever.
RECURSIVE Viewer_load_freelist_pages(_, _, _, _, _)

\* load_freelist_pages once the next trunk page is decoded.
Viewer_load_freelist_next(page, pages, rd, visited, next_page) ==
    IF ~next_page.ok THEN [res |-> next_page, pages |-> pages]
    ELSE IF page.next_page \in visited THEN [res |-> Diverges, pages |-> pages]
    ELSE Viewer_load_freelist_pages(next_page.val, page.next_page, pages, rd, visited)

\* load_freelist_pages once the leaf pages of the trunk page are loaded.
Viewer_load_freelist_trunk(page, rd, visited, leaves) ==
    IF ~leaves.res.ok THEN leaves
    ELSE IF page.next_page = 0 THEN leaves
    ELSE Viewer_load_freelist_next(page, leaves.pages, rd, visited,
                                   Reader_get_trunk_freelist_page(rd, page.next_page))

Viewer_load_freelist_pages(page, page_num, pages, rd, visited) ==
    Viewer_load_freelist_trunk(
        page, rd, visited \cup {page_num},
        Viewer_load_freelist_leaves(
            IF page.leaf_page_numbers.some THEN page.leaf_page_numbers.v ELSE <<>>,
            1,
            MapInsert(pages, page_num,
                      PageElementBuilder_build("TrunkFreelist", page, rd.db_header.page_size,
                                               page_num)),
            rd))

\* The `for cell in &page.cells` loop of new_from_included, from the c-th
\* cell of the page.
RECURSIVE Viewer_cells_loop(_, _, _, _)

\* The loop once the overflow chain of the cell is loaded.
Viewer_cells_loaded(page, c, rd, loaded) ==
    IF ~loaded.res.ok THEN loaded
    ELSE Viewer_cells_loop(page, c + 1, loaded.pages, rd)

\* The loop once the first overflow page of the cell is decoded.
Viewer_cells_opage(page, c, pages, rd, opage) ==
    IF ~opage.ok THEN [res |-> opage, pages |-> pages]
    ELSE Viewer_cells_loaded(
            page, c, rd,
            Viewer_load_overflow_page(opage.val, page.cells[c].overflow.v.page, pages, rd, {}))

Viewer_cells_loop(page, c, pages, rd) ==
    IF c > Len(page.cells) THEN [res |-> Ok(<<>>), pages |-> pages]
    ELSE IF page.cells[c].cell = "TableInterior" THEN Viewer_cells_loop(page, c + 1, pages, rd)
    ELSE IF ~page.cells[c].overflow.some THEN Viewer_cells_loop(page, c + 1, pages, rd)
    ELSE Viewer_cells_opage(page, c, pages, rd,
                            Reader_get_overflow_page(rd, page.cells[c].overflow.v.units,
                                                     page.cells[c].overflow.v.page))

\* The `for n in 1..reader.pages_total() + 1` loop of new_from_included,
\* from page n.
RECURSIVE Viewer_pages_loop(_, _, _)

\* The loop once the overflow chains of the cells of page n are loaded.
Viewer_pages_loaded(n, rd, page, loaded) ==
    IF ~loaded.res.ok THEN loaded
    ELSE Viewer_pages_loop(
            n + 1,
            MapInsert(loaded.pages, n,
                      PageElementBuilder_build("Btree", page, rd.db_header.page_size, n)),
            rd)

\* The loop once page n is read as a b-tree page: `Err(_) => continue`
\* leaves the page out of the map; a panic is nothing the match catches.
Viewer_pages_page(n, pages, rd, page) ==
    IF page.ok THEN Viewer_pages_loaded(n, rd, page.val,
                                        Viewer_cells_loop(page.val, 1, pages, rd))
    ELSE IF page.panic THEN [res |-> page, pages |-> pages]
    ELSE Viewer_pages_loop(n + 1, pages, rd)

Viewer_pages_loop(n, pages, rd) ==
    IF n > Reader_pages_total(rd) THEN [res |-> Ok(<<>>), pages |-> pages]
    ELSE IF n \in DOMAIN pages THEN Viewer_pages_loop(n + 1, pages, rd)
    ELSE Viewer_pages_page(n, pages, rd, Reader_get_btree_page(rd, n))

\* new_from_included once the loop over the pages is over.
Viewer_of(loaded) ==
    IF ~loaded.res.ok THEN loaded.res
    ELSE Ok([pages |-> MapIntoValues(loaded.pages)])

\* new_from_included once the freelist is loaded.
Viewer_with_freelist(rd, loaded) ==
    IF ~loaded.res.ok THEN loaded.res
    ELSE Viewer_of(Viewer_pages_loop(1, loaded.pages, rd))

\* new_from_included once the first trunk page is read: `if let Ok(page)`
\* passes over an error.
Viewer_with_trunk(rd, page) ==
    IF page.ok
    THEN Viewer_with_freelist(
            rd, Viewer_load_freelist_pages(page.val, rd.db_header.first_free_page_num,
                                           <<>>, rd, {}))
    ELSE IF Unwinds(page) THEN page
    ELSE Viewer_of(Viewer_pages_loop(1, <<>>, rd))

\* new_from_included once the Reader is made.
Viewer_with_reader(rd) ==
    IF ~rd.ok THEN rd
    ELSE IF rd.val.db_header.first_free_page_num # 0
    THEN Viewer_with_trunk(rd.val,
                           Reader_get_trunk_freelist_page(
                               rd.val, rd.val.db_header.first_free_page_num))
    ELSE Viewer_of(Viewer_pages_loop(1, <<>>, rd.val))

\* Viewer::get_page: `id as usize - 1` of the page list.
Viewer_get_page(v, id) ==
    IF id = 0 THEN Panic("attempt to subtract with overflow")
    ELSE IF id > Len(v.pages) THEN Panic("Page is outside of Viewer range.")
    ELSE Ok(v.pages[id])

(***************************************************************************)
(* included_db.rs: the databases built into the viewer. The files are not  *)
(* part of the sources; the images below stand for them: well-formed ones  *)
(* of each kind the viewer shows, and ones with a page that is no b-tree   *)
(* page, a chain that does not end or a header cut short.                  *)
(***************************************************************************)
\* The image with the first freelist trunk page of the header set.
WithFirstFree(image, first_free) ==
    [i \in 1..Len(image) |-> IF i \in 33..36 THEN U32BE(first_free)[i - 32] ELSE image[i]]

WriteTrunkPage(next, leaves) ==
    U32BE(next) \o U32BE(Len(leaves)) \o Concat([i \in 1..Len(leaves) |-> U32BE(leaves[i])])
        \o Fill(512 - 8 - 4 * Len(leaves), 0)

\* A table of one row on page 2; page 3 is a trunk page with one leaf,
\* page 4, followed by the trunk page 5 without leaves that ends the list
\* (or leads back to page 3), and a leaf number that may lie past the file.
FreelistImage(last_next, leaf) ==
    WithFirstFree(
        Concat(<<
            LeafPage(HeaderBytes(512, 0, 7, 0, 1, 7), <<SmallCell(0, 5, 2, 300)>>, 0),
            LeafPage(<<>>, <<SmallCell(0, 8, 5, 301)>>, 0),
            WriteTrunkPage(5, <<leaf>>),
            Fill(512, 0),
            WriteTrunkPage(last_next, <<>>)>>),
        3)

\* Two table pages, each with a row.
RowsImage ==
    Concat(<<
        LeafPage(HeaderBytes(512, 0, 7, 0, 1, 7), <<SmallCell(0, 5, 2, 300)>>, 0),
        LeafPage(<<>>, <<SmallCell(0, 8, 5, 301)>>, 0)>>)

\* A row of table page 4 with a text that spills onto the pages from 6.
SpilledImage(chain_end) ==
    DeepImage(0, "table",
              WriteCell("LeafTable", CellHeader(0), TestRow("sql", 965, 512, 4), 6, 300),
              chain_end)

IncludedNames ==
    {"Simple", "Rows", "Reserved space", "Damaged page", "Interior nodes", "Leaf nodes",
     "Overflow pages", "Overflow cycle", "Overflow beyond",
     "Freelist pages", "Freelist cycle", "Freelist beyond", "Cut header"}

INCLUDED_DB(name) ==
    CASE name = "Simple" -> FlatImage(0, 2)
      [] name = "Rows" -> RowsImage
      [] name = "Reserved space" -> FlatImage(32, 1)
      [] name = "Damaged page" -> Damage(FlatImage(0, 2), 2)
      [] name = "Interior nodes" -> WideImage(0)
      [] name = "Leaf nodes" -> IndexedImage(0, "leaf")
      [] name = "Overflow pages" -> SpilledImage("end")
      [] name = "Overflow cycle" -> SpilledImage("cycle")
      [] name = "Overflow beyond" -> SpilledImage("beyond")
      [] name = "Freelist pages" -> FreelistImage(0, 4)
      [] name = "Freelist cycle" -> FreelistImage(3, 4)
      [] name = "Freelist beyond" -> FreelistImage(0, 9)
      [] name = "Cut header" -> SubSeq(FlatImage(0, 0), 1, DB_HEADER_SIZE - 1)

Viewer_new_from_included(name) ==
    IF name \notin IncludedNames THEN Err("This db is not included.")
    ELSE Viewer_with_reader(Reader_new(INCLUDED_DB(name)))

(***************************************************************************)
(* index.rs: the event handlers of the page. Positions are 0-based as in   *)
(* the code: part np of a page is parts[np + 1] here.                      *)
(***************************************************************************)
Builds == {"debug", "release"}

\* `len() - 1` of a part without fields: a panic of the debug build; the
\* release build wraps to usize::MAX, and the index that follows panics.
LastOfEmpty(build) ==
    IF build = "debug" THEN Panic("attempt to subtract with overflow")
    ELSE Panic("index out of bounds")

\* The (next_nf, next_np) of move_to, as Ok(<<next_np, next_nf>>).
move_to_next(direction, nf, np, parts, build) ==
    IF direction = "Left"
    THEN IF nf > 0 THEN Ok(<<np, nf - 1>>)
         ELSE IF np > 0
         THEN IF np - 1 >= Len(parts) THEN Panic("index out of bounds")
              ELSE IF Len(parts[np].fields) = 0 THEN LastOfEmpty(build)
              ELSE Ok(<<np - 1, Len(parts[np].fields) - 1>>)
         ELSE Ok(<<np, nf>>)
    ELSE IF np >= Len(parts) THEN Panic("index out of bounds")
         ELSE IF Len(parts[np + 1].fields) = 0
         THEN IF build = "debug" THEN Panic("attempt to subtract with overflow")
              ELSE Ok(<<np, nf + 1>>)
         ELSE IF nf < Len(parts[np + 1].fields) - 1 THEN Ok(<<np, nf + 1>>)
         ELSE IF np < Len(parts) - 1 THEN Ok(<<np + 1, 0>>)
         ELSE Ok(<<np, nf>>)

\* move_to once the next position is computed: the part and the field are
\* indexed, then the three signals written.
move_to_write(parts, next) ==
    IF ~next.ok THEN next
    ELSE IF next.val[1] >= Len(parts) THEN Panic("index out of bounds")
    ELSE IF next.val[2] >= Len(parts[next.val[1] + 1].fields)
    THEN Panic("index out of bounds")
    ELSE Ok([locked_field |-> Some(next.val),
             selected_field |-> Some(parts[next.val[1] + 1].fields[next.val[2] + 1]),
             selected_part |-> Some(parts[next.val[1] + 1])])

move_to(direction, nf, np, page, build) ==
    move_to_write(page.parts, move_to_next(direction, nf, np, page.parts, build))

\* try_jump: Ok(Some(page)) when the field holds a page number and the
\* viewer has the page, Ok(None) when the field holds none.
try_jump_to(v, n) ==
    IF ~n.ok THEN Ok(None)
    ELSE IF ~Viewer_get_page(v, n.val).ok THEN Viewer_get_page(v, n.val)
    ELSE Ok(Some(Viewer_get_page(v, n.val).val))

try_jump(nf, np, page, v) ==
    IF np >= Len(page.parts) THEN Panic("index out of bounds")
    ELSE IF nf >= Len(page.parts[np + 1].fields) THEN Panic("index out of bounds")
    ELSE try_jump_to(v, Field_try_page_number(page.parts[np + 1].fields[nf + 1]))

(***************************************************************************)
(* Behaviours of the viewer: a database is selected, then pages are asked  *)
(* for, tabs and fields clicked and keys pressed, until a handler panics.  *)
(***************************************************************************)
\* The largest page number asked of Viewer::get_page.
MaxViewPage == 8

Keys == {"ArrowLeft", "ArrowRight", "Enter", "Escape"}

Ran(op, key, res) == [op |-> op, key |-> key, res |-> res]

\* No handler has panicked or hung: the page still takes events.
Alive == IF handler = NoResult THEN TRUE ELSE handler.res.ok

Loaded == viewer # NoResult

InitViewer ==
    /\ mode = "viewer"
    /\ IdleVarint
    /\ IdleReader
    /\ IdleCell
    /\ IdleTree
    /\ IdleViewer

\* The selection of a database is written to the signals.
HeaderOnInput_write(name, new_viewer, first_page) ==
    IF ~first_page.ok
    THEN /\ handler' = Ran("Header.oninput", name, first_page)
         /\ UNCHANGED <<viewer, selected_page, selected_part, selected_field, locked_field>>
    ELSE /\ handler' = Ran("Header.oninput", name, Ok(<<>>))
         /\ viewer' = Ok(new_viewer)
         /\ selected_page' = first_page.val
         /\ selected_part' = None
         /\ selected_field' = None
         /\ locked_field' = None

\* oninput of the select of the Header once the viewer is made (AppState::init
\* does the same for the first database): `expect` turns an error of the
\* viewer into a panic.
HeaderOnInput_with(name, new_viewer) ==
    IF new_viewer.ok
    THEN HeaderOnInput_write(name, new_viewer.val, Viewer_get_page(new_viewer.val, 1))
    ELSE /\ handler' = Ran("Header.oninput", name,
                           IF new_viewer = Diverges \/ new_viewer.panic THEN new_viewer
                           ELSE Panic("Viewer failed"))
         /\ UNCHANGED <<viewer, selected_page, selected_part, selected_field, locked_field>>

\* The handler overwrites every signal and reads none, so it is taken here
\* before the other events only: first, or straight after itself.
HeaderOnInput ==
    /\ mode = "viewer"
    /\ Alive
    /\ IF handler = NoResult THEN TRUE ELSE handler.op = "Header.oninput"
    /\ \E name \in IncludedNames :
        /\ current_db' = name
        /\ HeaderOnInput_with(name, Viewer_new_from_included(name))
    /\ UNCHANGED <<mode, varintVars, readerVars, cellVars, treeVars>>

\* Viewer::get_page for any page number.
ViewerGetPage ==
    /\ mode = "viewer"
    /\ Alive
    /\ Loaded
    /\ \E n \in 1..MaxViewPage :
        handler' = Ran("Viewer::get_page", n, Viewer_get_page(viewer.val, n))
    /\ UNCHANGED <<mode, current_db, viewer, selected_page, selected_part, selected_field,
                   locked_field, varintVars, readerVars, cellVars, treeVars>>

\* onclick of a tab of the page list.
PageListTabOnClick ==
    /\ mode = "viewer"
    /\ Alive
    /\ Loaded
    /\ \E n \in 1..Len(viewer.val.pages) :
        /\ handler' = Ran("PageListTab.onclick", n, Ok(<<>>))
        /\ selected_page' = viewer.val.pages[n]
    /\ selected_part' = None
    /\ selected_field' = None
    /\ locked_field' = None
    /\ UNCHANGED <<mode, current_db, viewer, varintVars, readerVars, cellVars, treeVars>>

\* What try_jump leaves in the signals.
TryJump(op, key, jump) ==
    /\ handler' = Ran(op, key, IF jump.ok THEN Ok(<<>>) ELSE jump)
    /\ IF jump.ok /\ jump.val.some
       THEN /\ selected_page' = jump.val.v
            /\ selected_part' = None
            /\ selected_field' = None
            /\ locked_field' = None
       ELSE UNCHANGED <<selected_page, selected_part, selected_field, locked_field>>

\* onclick of a field: a page number is jumped to, an unallocated region
\* is unfolded or folded (nothing of the state here), any other field is
\* locked, or unlocked if it is the locked one.
FieldElementOnClick ==
    /\ mode = "viewer"
    /\ Alive
    /\ Loaded
    /\ \E np \in 0..(Len(selected_page.parts) - 1) :
        \E nf \in 0..(Len(selected_page.parts[np + 1].fields) - 1) :
            LET part == selected_page.parts[np + 1]
                field == part.fields[nf + 1]
            IN  IF Field_try_page_number(field).ok
                THEN TryJump("FieldElement.onclick", <<np, nf>>,
                             try_jump(nf, np, selected_page, viewer.val))
                ELSE IF field.value = "Unallocated"
                THEN /\ handler' = Ran("FieldElement.onclick", <<np, nf>>, Ok(<<>>))
                     /\ UNCHANGED <<selected_page, selected_part, selected_field,
                                    locked_field>>
                ELSE IF locked_field # Some(<<np, nf>>)
                THEN /\ handler' = Ran("FieldElement.onclick", <<np, nf>>, Ok(<<>>))
                     /\ locked_field' = Some(<<np, nf>>)
                     /\ selected_field' = Some(field)
                     /\ selected_part' = Some(part)
                     /\ UNCHANGED selected_page
                ELSE /\ handler' = Ran("FieldElement.onclick", <<np, nf>>, Ok(<<>>))
                     /\ locked_field' = None
                     /\ UNCHANGED <<selected_page, selected_part, selected_field>>
    /\ UNCHANGED <<mode, current_db, viewer, varintVars, readerVars, cellVars, treeVars>>

\* What move_to leaves in the signals.
MoveTo(key, moved) ==
    /\ handler' = Ran("Home.onkeydown", key, IF moved.ok THEN Ok(<<>>) ELSE moved)
    /\ IF moved.ok
       THEN /\ locked_field' = moved.val.locked_field
            /\ selected_field' = moved.val.selected_field
            /\ selected_part' = moved.val.selected_part
       ELSE UNCHANGED <<locked_field, selected_field, selected_part>>
    /\ UNCHANGED selected_page

\* onkeydown of Home: the keys act on the locked field only.
HomeOnKeyDown ==
    /\ mode = "viewer"
    /\ Alive
    /\ Loaded
    /\ \E key \in Keys, build \in Builds :
        IF ~locked_field.some
        THEN /\ handler' = Ran("Home.onkeydown", key, Ok(<<>>))
             /\ UNCHANGED <<selected_page, selected_part, selected_field, locked_field>>
        ELSE CASE key = "ArrowLeft" ->
                    MoveTo(key, move_to("Left", locked_field.v[2], locked_field.v[1],
                                        selected_page, build))
               [] key = "ArrowRight" ->
                    MoveTo(key, move_to("Right", locked_field.v[2], locked_field.v[1],
                                        selected_page, build))
               [] key = "Enter" ->
                    TryJump("Home.onkeydown", key,
                            try_jump(locked_field.v[2], locked_field.v[1], selected_page,
                                     viewer.val))
               [] OTHER ->
                    /\ handler' = Ran("Home.onkeydown", key, Ok(<<>>))
                    /\ UNCHANGED <<selected_page, selected_part, selected_field,
                                   locked_field>>
    /\ UNCHANGED <<mode, current_db, viewer, varintVars, readerVars, cellVars, treeVars>>

NextViewer ==
    \/ HeaderOnInput
    \/ ViewerGetPage
    \/ PageListTabOnClick
    \/ FieldElementOnClick
    \/ HomeOnKeyDown

SpecViewer == InitViewer /\ [][NextViewer]_vars

\* The viewer on display was made from current_db: the last selection did
\* not fail.
ViewerOfCurrent ==
    /\ mode = "viewer"
    /\ Loaded
    /\ handler.op = "Header.oninput" => handler.res.ok

PagesTotalOfCurrent == Reader_pages_total(Reader_new(INCLUDED_DB(current_db)).val)

\* C29: for every database that Viewer::new_from_included loads and every
\* page number n in 1..=pages_total(), Viewer::get_page(n) returns the view
\* of page n (its id is n): the page list holds exactly one view per page
\* number, in page-number order with none skipped, whatever kind each page
\* is (b-tree, overflow, freelist trunk or leaf, or a page that does not
\* parse as a b-tree page).
C29_OneViewPerPage ==
    ViewerOfCurrent =>
        /\ Len(viewer.val.pages) = PagesTotalOfCurrent
        /\ \A n \in 1..Len(viewer.val.pages) : viewer.val.pages[n].id = n
        /\ (handler.op = "Viewer::get_page" /\ handler.key \in 1..PagesTotalOfCurrent) =>
              /\ handler.res.ok
              /\ handler.res.val.id = handler.key

\* The 0-based position <<np, nf>> designates a field of the page.
FieldExists(page, position) ==
    /\ position[1] < Len(page.parts)
    /\ position[2] < Len(page.parts[position[1] + 1].fields)

FirstField == <<0, 0>>

LastField(page) == <<Len(page.parts) - 1, Len(page.parts[Len(page.parts)].fields) - 1>>

\* C30: from any locked position that designates an existing field of the
\* selected page, an ArrowLeft or ArrowRight step (move_to) ends with the
\* locked position designating an existing field of that page; Left at the
\* first field of the first part and Right at the last field of the last
\* part leave the position unchanged. This for every page, those with a
\* part of zero fields (the cell pointer array of a page without cells)
\* included.
C30_ArrowsKeepField ==
    [][(/\ mode = "viewer"
        /\ Loaded
        /\ locked_field.some
        /\ FieldExists(selected_page, locked_field.v)
        /\ handler'.op = "Home.onkeydown"
        /\ handler'.key \in {"ArrowLeft", "ArrowRight"})
       => (/\ handler'.res.ok
           /\ selected_page' = selected_page
           /\ locked_field'.some
           /\ FieldExists(selected_page, locked_field'.v)
           /\ (handler'.key = "ArrowLeft" /\ locked_field.v = FirstField)
                 => locked_field' = locked_field
           /\ (handler'.key = "ArrowRight" /\ locked_field.v = LastField(selected_page))
                 => locked_field' = locked_field)]_vars

====
